---- MODULE Spec2Model ----
(***************************************************************************)
(* Model of the IoT API change pipeline of wintechis/iot-api-change-taxonomy*)
(*                                                                         *)
(*   SpecIngest    scripts/data-gathering.py   (Corpus Store)              *)
(*   SpecRace      two concurrent runs of scripts/data-gathering.py        *)
(*   SpecClassify  data_processing/api-taxonomy-classification.py          *)
(*   SpecReclassify  the classification script run twice over its input   *)
(*   SpecJoin      scripts/post-filtering.py   (Cross-Reference Joiner)    *)
(*   SpecAnnotate  scripts/screening-human-annotation.py                   *)
(*                                             (Annotation Reconciler)     *)
(*   SpecFilter    scripts/prefiltering.py     (Relevance Filter)          *)
(*   SpecScrape    data_processing/data-gathering-integration-            *)
(*                 documentations.py           (Integration Scraper)       *)
(*   SpecScreen    data_processing/screening-with-llm.py (LLM Screening)   *)
(*                                                                         *)
(* Every stage is a sequential script; each specification runs one stage   *)
(* and leaves the variables of the other stages untouched.                 *)
(***************************************************************************)
EXTENDS Integers, Sequences, FiniteSets, TLC

\* ------------------------------------------------------------------------
\* Bounds
\* ------------------------------------------------------------------------
MaxIssueNumber == 3     \* issue numbers of the tracker are 1..MaxIssueNumber
MaxSeedLen == 2         \* issues in a batch file present before the first run
MaxRuns == 3            \* ingestion runs in one behaviour
\* data-gathering.py:16 sets BATCH_SIZE = 100; the model scales it down so
\* that a source of MaxIssueNumber issues can fill a batch.
BATCH_SIZE == 2

MaxCorpus == 2          \* issues in the corpus the classifier loads
MaxReports == 2         \* change reports in the batch file the joiner loads
MaxTags == 2            \* tags of one change report

MaxItems == 2           \* issues in the document the reconciler loads
MaxAnnotateRuns == 2    \* runs of the annotation command in one behaviour

MaxFilterCorpus == 3    \* issues in the corpus the relevance filter searches
MaxWriterRuns == 2      \* runs of each of two concurrent ingestion processes
MaxPages == 2           \* integration pages the scraper visits

IssueNumbers == 1..MaxIssueNumber
SeedSuffixes == {1, 4, 9}

\* ------------------------------------------------------------------------
\* Helpers
\* ------------------------------------------------------------------------
Range(s) == {s[i] : i \in DOMAIN s}

NoDup(s) == \A i, j \in DOMAIN s : i # j => s[i] # s[j]

SeqsUpTo(S, n) == UNION {[1..k -> S] : k \in 0..n}

MaxOf(S) == CHOOSE m \in S : \A x \in S : x <= m

VARIABLES
    \* ---- Corpus Store (data-gathering.py)
    source,         \* the tracker's issues (numbers) in its native order
    token,          \* GITHUB_TOKEN is set
    directory,      \* ISSUE_BATCHES_DIR: batch suffix -> issues of batch_<n>.json
    ipc,            \* position of the ingestion script
    stored_issues,  \* local of fetch_and_store_issues
    repository,     \* Repository.issues being collected in this run
    pos,            \* index in source of the issue the for loop visits next
    runs,           \* runs started so far
    outcome,        \* how the last run ended
    all_issues,     \* what load_all_issues returned to main()
    writers         \* two concurrent runs of main() on one batch directory

VARIABLES
    \* ---- Taxonomy Classifier (api-taxonomy-classification.py)
    data,                 \* data["issues"] of the input file
    new_taxonomy_issues,  \* the Issue objects built from it
    cpc,                  \* position of the classification script
    num,                  \* index of the issue the for loop is at (1-based)
    attempt,              \* position in the retry list of analyze_content
    calls,                \* the requests sent to the oracle, in order
    output,               \* data["issues"] of the output file
    crun,                 \* the script runs for the first or the second time
    labelled_before       \* history: issues with a verdict when the first
                          \* run ended

ingestVars == <<source, token, directory, ipc, stored_issues, repository, pos,
                runs, outcome, all_issues, writers>>

VARIABLES
    \* ---- Cross-Reference Joiner (post-filtering.py)
    change_reports,       \* the ChangeReport objects of main()
    integrations,         \* the IntegrationInfo objects (their api)
    jpc,                  \* position of main()
    jnum,                 \* index of the report the tag loop is at
    filtered_change_reports,  \* content of OUTPUT_CHANGE_REPORTS_FILE_PATH
    filtered_integrations     \* content of OUTPUT_APIS_FILE_PATH

classifyVars == <<data, new_taxonomy_issues, cpc, num, attempt, calls, output,
                  crun, labelled_before>>

joinVars == <<change_reports, integrations, jpc, jnum, filtered_change_reports,
              filtered_integrations>>

VARIABLES
    \* ---- Annotation Reconciler (screening-human-annotation.py)
    input_file,       \* content of the file at --input-file
    output_file,      \* content of the file at --output-file
    same_path,        \* both options name the same file
    answers,          \* the operator's decision for every item (a, d or s)
    annotation_data,  \* local data of annotate_issues
    apc,              \* position of annotate_issues
    index,            \* loop variable of annotate_issues (0-based)
    aruns,            \* runs of the command started so far
    first_input,      \* history: the input file before the first run
    started_on,       \* history: the input file as this run found it
    prompted,         \* history: the indices prompted in this run, in order
    prev              \* history: how and where the previous run stopped

VARIABLES
    \* ---- Relevance Filter (prefiltering.py)
    corpus,           \* repository.issues as loaded from the batch directory
    threshold,        \* the threshold main() passes on
    fpc,              \* position of search_issues_and_comments
    fnum,             \* index of the issue the for loop is at (1-based)
    results,          \* local results of search_issues_and_comments
    search_results,   \* the list it returns
    saved_results     \* the "search_results" list of the output JSON file

annotateVars == <<input_file, output_file, same_path, answers, annotation_data,
                  apc, index, aruns, first_input, started_on, prompted,
                  prev>>

filterVars == <<corpus, threshold, fpc, fnum, results, search_results,
                saved_results>>

VARIABLES
    \* ---- Integration Scraper (data-gathering-integration-documentations.py)
    urls,               \* the pages behind the urls of INPUT_FILE_PATH
    scpc,               \* position of main()
    scnum,              \* index of the url the for loop is at (1-based)
    scraped,            \* the local list integrations of main()
    integrations_file   \* data["search_results"] of OUTPUT_FILE_PATH

scrapeVars == <<urls, scpc, scnum, scraped, integrations_file>>

VARIABLES
    \* ---- LLM Screening (screening-with-llm.py)
    search_items,       \* issue numbers of search_results.search_results
    results_file,       \* content of OUTPUT_FILE_PATH
    existing_results,   \* the dictionary main() loads before its loop
    lpc,                \* position of main()
    lnum,               \* index of the result the for loop is at (1-based)
    analysis,           \* the oracle's answer analyze_and_save_result holds
    submitted,          \* history: the issues sent to the oracle, in order
    lruns               \* runs started so far

screenVars == <<search_items, results_file, existing_results, lpc, lnum,
                analysis, submitted, lruns>>

vars == <<ingestVars, classifyVars, joinVars, annotateVars, filterVars,
          scrapeVars, screenVars>>

\* the two processes of a concurrent ingestion
Writers == {"a", "b"}

\* a process before its run: nothing read, nothing collected
NotStarted ==
    [wpc |-> "idle", stored_issues |-> {}, repository |-> <<>>, number |-> 0,
     outcome |-> "none", runs |-> 0]

NoWriters == [w \in Writers |-> NotStarted]

\* the stages a specification does not run
IngestIdle ==
    /\ source = <<>>
    /\ token = FALSE
    /\ directory = <<>>
    /\ ipc = "off"
    /\ stored_issues = {}
    /\ repository = <<>>
    /\ pos = 1
    /\ runs = 0
    /\ outcome = "none"
    /\ all_issues = <<>>
    /\ writers = NoWriters

ClassifyIdle ==
    /\ data = <<>>
    /\ new_taxonomy_issues = <<>>
    /\ cpc = "off"
    /\ num = 1
    /\ attempt = 1
    /\ calls = <<>>
    /\ output = <<>>
    /\ crun = "first"
    /\ labelled_before = {}

JoinIdle ==
    /\ change_reports = <<>>
    /\ integrations = <<>>
    /\ jpc = "off"
    /\ jnum = 1
    /\ filtered_change_reports = <<>>
    /\ filtered_integrations = <<>>

\* an absent file, and a document with no issues
Absent == [form |-> "absent", issues |-> <<>>, progress |-> 0]

NoDocument == [issues |-> <<>>, progress |-> 0]

NoRun == [how |-> "none", at |-> 0]

AnnotateIdle ==
    /\ input_file = Absent
    /\ output_file = Absent
    /\ same_path = FALSE
    /\ answers = <<>>
    /\ annotation_data = NoDocument
    /\ apc = "off"
    /\ index = 0
    /\ aruns = 0
    /\ first_input = Absent
    /\ started_on = Absent
    /\ prompted = <<>>
    /\ prev = NoRun

FilterIdle ==
    /\ corpus = <<>>
    /\ threshold = 0
    /\ fpc = "off"
    /\ fnum = 1
    /\ results = <<>>
    /\ search_results = <<>>
    /\ saved_results = <<>>

\* no result file yet, and no answer of the oracle in hand
NoResultsFile == [exists |-> FALSE, records |-> <<>>]

NoAnalysis == [held |-> FALSE, is_api_related |-> FALSE]

ScrapeIdle ==
    /\ urls = <<>>
    /\ scpc = "off"
    /\ scnum = 1
    /\ scraped = <<>>
    /\ integrations_file = <<>>

ScreenIdle ==
    /\ search_items = <<>>
    /\ results_file = NoResultsFile
    /\ existing_results = <<>>
    /\ lpc = "off"
    /\ lnum = 1
    /\ analysis = NoAnalysis
    /\ submitted = <<>>
    /\ lruns = 0

\* ------------------------------------------------------------------------
\* Corpus Store
\* ------------------------------------------------------------------------
get_stored_issue_numbers_nothing(dir) == {}

get_stored_issue_numbers(dir) ==
    UNION {Range(dir[n]) : n \in DOMAIN dir}

\* max() of an empty list raises ValueError
get_file_number_raises(dir) == DOMAIN dir = {}

get_file_number_count(dir) == Cardinality(DOMAIN dir) + 1

get_file_number(dir) == MaxOf(DOMAIN dir) + 1

store_issue_batch_alone(dir, issues, batch_number) ==
    [n \in {batch_number} |-> issues]

store_issue_batch(dir, issues, batch_number) ==
    [n \in DOMAIN dir \cup {batch_number} |->
        IF n = batch_number THEN issues ELSE dir[n]]

\* the decimal digits of a batch number, as str(n) writes them
RECURSIVE Digits(_)
Digits(n) == IF n < 10 THEN <<n>> ELSE Digits(n \div 10) \o <<n % 10>>

\* what follows "batch_" in the file name batch_<n>.json: the digits and the
\* "." of the extension, which sorts before every digit (written -1)
NameTail(n) == Digits(n) \o <<-1>>

\* string comparison of two such tails; none is a prefix of another
RECURSIVE NameBefore(_, _)
NameBefore(a, b) ==
    IF Head(a) # Head(b)
    THEN Head(a) < Head(b)
    ELSE NameBefore(Tail(a), Tail(b))

\* sorted(os.listdir(ISSUE_BATCHES_DIR)): the suffixes in file-name order
RECURSIVE SortedListdir(_)
SortedListdir(suffixes) ==
    IF suffixes = {}
    THEN <<>>
    ELSE LET first == CHOOSE n \in suffixes :
                        \A m \in suffixes \ {n} :
                            NameBefore(NameTail(n), NameTail(m))
         IN  <<first>> \o SortedListdir(suffixes \ {first})

RECURSIVE Extend(_, _)
Extend(dir, order) ==
    IF order = <<>>
    THEN <<>>
    ELSE dir[Head(order)] \o Extend(dir, Tail(order))

\* load_all_issues (and load_issues_from_directory of prefiltering.py):
\* repository.issues.extend(...) for every file in sorted(os.listdir(...))
load_all_issues(dir) == Extend(dir, SortedListdir(DOMAIN dir))

EmptyDir == <<>>

IngestInit ==
    /\ source \in {s \in SeqsUpTo(IssueNumbers, MaxIssueNumber) : NoDup(s)}
    /\ token \in BOOLEAN
    /\ directory \in {EmptyDir} \cup
           UNION {[{n} -> {s \in SeqsUpTo(IssueNumbers, MaxSeedLen) : NoDup(s)}]
                    : n \in SeedSuffixes}
    /\ ipc = "idle"
    /\ stored_issues = {}
    /\ repository = <<>>
    /\ pos = 1
    /\ runs = 0
    /\ outcome = "none"
    /\ all_issues = <<>>
    /\ writers = NoWriters
    /\ ClassifyIdle
    /\ JoinIdle
    /\ AnnotateIdle
    /\ FilterIdle
    /\ ScrapeIdle
    /\ ScreenIdle

StartRun_anonymous ==
    /\ ipc = "idle"
    /\ runs < MaxRuns
    /\ runs' = runs + 1
    /\ stored_issues' = get_stored_issue_numbers(directory)
    /\ repository' = <<>>
    /\ pos' = 1
    /\ ipc' = "iterate"
    /\ outcome' = "running"
    /\ UNCHANGED <<writers, all_issues, source, token, directory, classifyVars,
                   joinVars, annotateVars, filterVars,
                   scrapeVars, screenVars>>

\* main() -> fetch_and_store_issues up to the first loop: a missing token
\* raises ValueError in initialize_github_client, main() prints it.
StartRun ==
    /\ ipc = "idle"
    /\ runs < MaxRuns
    /\ runs' = runs + 1
    /\ IF token
       THEN /\ stored_issues' = get_stored_issue_numbers(directory)
            /\ repository' = <<>>
            /\ pos' = 1
            /\ ipc' = "iterate"
            /\ outcome' = "running"
       ELSE /\ outcome' = "error"
            /\ UNCHANGED <<stored_issues, repository, pos, ipc>>
    /\ UNCHANGED <<writers, all_issues, source, token, directory, classifyVars, joinVars, annotateVars,
                   filterVars,
                   scrapeVars, screenVars>>

\* for issue in issues: an issue already stored is skipped
SkipIssue ==
    /\ ipc = "iterate"
    /\ pos <= Len(source)
    /\ source[pos] \in stored_issues
    /\ pos' = pos + 1
    /\ UNCHANGED <<writers, all_issues, source, token, directory, ipc, stored_issues, repository,
                   runs, outcome, classifyVars, joinVars, annotateVars,
                   filterVars,
                   scrapeVars, screenVars>>

\* for issue in issues: a new issue is fetched with its comments and appended;
\* the loop breaks when the batch is full
FetchIssue ==
    /\ ipc = "iterate"
    /\ pos <= Len(source)
    /\ source[pos] \notin stored_issues
    /\ repository' = Append(repository, source[pos])
    /\ IF Len(repository') >= BATCH_SIZE
       THEN ipc' = "collected" /\ pos' = pos
       ELSE ipc' = ipc /\ pos' = pos + 1
    /\ UNCHANGED <<writers, all_issues, source, token, directory, stored_issues, runs, outcome,
                   classifyVars, joinVars, annotateVars,
                   filterVars,
                   scrapeVars, screenVars>>

FetchFails_stores_partial ==
    /\ ipc = "iterate"
    /\ pos <= Len(source)
    /\ source[pos] \notin stored_issues
    /\ ipc' = "idle"
    /\ outcome' = "error"
    /\ directory' = IF repository = <<>> \/ get_file_number_raises(directory)
                    THEN directory
                    ELSE store_issue_batch(directory, repository,
                                           get_file_number(directory))
    /\ UNCHANGED <<writers, all_issues, source, token, stored_issues, repository, pos,
                   runs, classifyVars, joinVars, annotateVars, filterVars,
                   scrapeVars, screenVars>>

\* fetch_issue_comments / get_labels raises: the exception leaves
\* fetch_and_store_issues and main() prints it
FetchFails ==
    /\ ipc = "iterate"
    /\ pos <= Len(source)
    /\ source[pos] \notin stored_issues
    /\ ipc' = "idle"
    /\ outcome' = "error"
    /\ UNCHANGED <<writers, all_issues, source, token, directory, stored_issues, repository, pos,
                   runs, classifyVars, joinVars, annotateVars,
                   filterVars,
                   scrapeVars, screenVars>>

\* the for loop ran out of issues
SourceExhausted ==
    /\ ipc = "iterate"
    /\ pos > Len(source)
    /\ ipc' = "collected"
    /\ UNCHANGED <<writers, all_issues, source, token, directory, stored_issues, repository, pos,
                   runs, outcome, classifyVars, joinVars, annotateVars,
                   filterVars,
                   scrapeVars, screenVars>>

\* if not repository.issues: break; otherwise store the batch under
\* get_file_number() and leave the while loop
StoreOrStop ==
    /\ ipc = "collected"
    /\ IF repository = <<>>
       THEN /\ outcome' = "nothing"
            /\ ipc' = "fetched"
            /\ UNCHANGED <<directory, stored_issues>>
       ELSE IF get_file_number_raises(directory)
       THEN /\ outcome' = "error"
            /\ ipc' = "idle"
            /\ UNCHANGED <<directory, stored_issues>>
       ELSE /\ directory' = store_issue_batch(directory, repository,
                                              get_file_number(directory))
            /\ stored_issues' = stored_issues \cup Range(repository)
            /\ outcome' = "stored"
            /\ ipc' = "fetched"
    /\ UNCHANGED <<writers, all_issues, source, token, repository, pos, runs, classifyVars, joinVars, annotateVars,
                   filterVars,
                   scrapeVars, screenVars>>

\* main(), line 236: repository = load_all_issues(REPO_NAME) once
\* fetch_and_store_issues has returned
LoadAll ==
    /\ ipc = "fetched"
    /\ all_issues' = load_all_issues(directory)
    /\ ipc' = "idle"
    /\ UNCHANGED <<writers, source, token, directory, stored_issues, repository, pos,
                   runs, outcome, classifyVars, joinVars, annotateVars,
                   filterVars,
                   scrapeVars, screenVars>>

IngestNext ==
    \/ StartRun
    \/ SkipIssue
    \/ FetchIssue
    \/ FetchFails
    \/ SourceExhausted
    \/ StoreOrStop
    \/ LoadAll

SpecIngest == IngestInit /\ [][IngestNext]_vars

\* ---- two processes running main() against the same batch directory
\* the for loop of fetch_and_store_issues: the issues of the tracker that
\* are not in stored, in the tracker's order, up to a full batch
RECURSIVE Collected(_, _, _)
Collected(issues, stored, room) ==
    IF issues = <<>> \/ room = 0
    THEN <<>>
    ELSE IF Head(issues) \in stored
         THEN Collected(Tail(issues), stored, room)
         ELSE <<Head(issues)>> \o Collected(Tail(issues), stored, room - 1)

RaceInit ==
    /\ source \in {s \in SeqsUpTo(IssueNumbers, MaxIssueNumber) : NoDup(s)}
    /\ token = TRUE
    /\ directory \in {EmptyDir} \cup
           [{1} -> {s \in SeqsUpTo(IssueNumbers, 1) : NoDup(s)}]
    /\ ipc = "off"
    /\ stored_issues = {}
    /\ repository = <<>>
    /\ pos = 1
    /\ runs = 0
    /\ outcome = "none"
    /\ all_issues = <<>>
    /\ writers = NoWriters
    /\ ClassifyIdle
    /\ JoinIdle
    /\ AnnotateIdle
    /\ FilterIdle
    /\ ScrapeIdle
    /\ ScreenIdle

\* fetch_and_store_issues up to the while loop: the process reads the
\* numbers stored so far
WriterStart(w) ==
    /\ writers[w].wpc = "idle"
    /\ writers[w].runs < MaxWriterRuns
    /\ writers' = [writers EXCEPT
            ![w].wpc = "loop",
            ![w].runs = @ + 1,
            ![w].stored_issues = get_stored_issue_numbers(directory),
            ![w].repository = <<>>,
            ![w].outcome = "running"]
    /\ UNCHANGED <<source, token, directory, ipc, stored_issues, repository,
                   pos, runs, outcome, all_issues, classifyVars, joinVars,
                   annotateVars, filterVars,
                   scrapeVars, screenVars>>

\* the for loop and "if not repository.issues: break"; the loop reads the
\* tracker and the process's own stored_issues only
WriterCollect(w) ==
    /\ writers[w].wpc = "loop"
    /\ LET batch == Collected(source, writers[w].stored_issues, BATCH_SIZE)
       IN  writers' = [writers EXCEPT
                ![w].repository = batch,
                ![w].wpc = IF batch = <<>> THEN "idle" ELSE "number",
                ![w].outcome = IF batch = <<>> THEN "nothing" ELSE @]
    /\ UNCHANGED <<source, token, directory, ipc, stored_issues, repository,
                   pos, runs, outcome, all_issues, classifyVars, joinVars,
                   annotateVars, filterVars,
                   scrapeVars, screenVars>>

\* number = get_file_number(): the directory is listed now, the file is
\* opened later
WriterNumber(w) ==
    /\ writers[w].wpc = "number"
    /\ writers' = IF get_file_number_raises(directory)
                  THEN [writers EXCEPT ![w].wpc = "idle",
                                       ![w].outcome = "error"]
                  ELSE [writers EXCEPT ![w].wpc = "store",
                                       ![w].number = get_file_number(directory)]
    /\ UNCHANGED <<source, token, directory, ipc, stored_issues, repository,
                   pos, runs, outcome, all_issues, classifyVars, joinVars,
                   annotateVars, filterVars,
                   scrapeVars, screenVars>>

\* store_issue_batch(repository, number): open(filename, "w") creates the
\* file or truncates the one that is there
WriterStore(w) ==
    /\ writers[w].wpc = "store"
    /\ directory' = store_issue_batch(directory, writers[w].repository,
                                      writers[w].number)
    /\ writers' = [writers EXCEPT
            ![w].wpc = "idle",
            ![w].outcome = "stored",
            ![w].stored_issues = @ \cup Range(writers[w].repository)]
    /\ UNCHANGED <<source, token, ipc, stored_issues, repository, pos, runs,
                   outcome, all_issues, classifyVars, joinVars, annotateVars,
                   filterVars,
                   scrapeVars, screenVars>>

RaceNext ==
    \E w \in Writers :
        \/ WriterStart(w)
        \/ WriterCollect(w)
        \/ WriterNumber(w)
        \/ WriterStore(w)

SpecRace == RaceInit /\ [][RaceNext]_vars

\* ------------------------------------------------------------------------
\* Taxonomy Classifier
\* ------------------------------------------------------------------------
None == "<None>"

\* IoTAPIChangesList: the leaf categories of the taxonomy plus Unknown
IoTAPIChangesList == {
    "Modify Data Payload Format", "Modify Data Type",
    "Modify Structure of Payload", "Modify Encoding of Payload",
    "Modify Payload Compression", "Modify Consumed Data Payload",
    "Modify Produced Data Payload", "Modify Protocol",
    "Modify Protocol Version", "Add Protocol Feature", "Add Endpoint",
    "Remove Endpoint", "Rename Endpoint", "Relocate Endpoint",
    "Split Endpoint", "Combine Endpoint", "Modify Access Method to Endpoint",
    "Modify Authentication Method", "Modify Authorization Method",
    "Modify Encryption", "Modify Access Control Policy", "Add Parameter",
    "Remove Parameter", "Rename Parameter", "Modify Parameter Upper Bound",
    "Modify Parameter Lower Bound", "Modify Default Value of Parameter",
    "Reorder Parameter", "Unknown" }

\* The keyword arguments / JSON keys an APITaxonomyClassification is built
\* from.  confidence and explanation are declared with an alias and the model
\* does not set populate_by_name, so validation reads them under the alias
\* only.  Confidences are written in tenths (0.9 is 9).
AliasKeys == {"class_type", "api_taxonomy_class_confidence",
              "api_taxonomy_class_explanation"}

NameKeys == {"class_type", "confidence", "explanation"}

\* class APITaxonomyClassification: validation of the given keys.  class_type
\* is a plain str: the enum is only a json_schema_extra annotation.
APITaxonomyClassification(keys, class_type) ==
    AliasKeys \subseteq keys

\* the value of Issue.api_taxonomy_class: None, one classification, or the
\* APITaxonomyClassificationList the loop assigns
NoVerdict == [kind |-> "None", classes |-> <<>>]

Classification(class_type, confidence, explanation) ==
    [class_type |-> class_type, confidence |-> confidence,
     explanation |-> explanation]

\* lines 309 and 319: APITaxonomyClassification(class_type="Unknown",
\* confidence=0.0, explanation="No content to analyze")
DefaultKeys == NameKeys

DefaultVerdict ==
    [kind |-> "single",
     classes |-> <<Classification("Unknown", 0, "No content to analyze")>>]

\* ---- the input file
Titles == {None, "", "t"}
Bodies == {None, "", "b"}
CommentLists == {<<>>, <<"c1", "c2">>}
LoadedVerdicts ==
    {NoVerdict,
     [kind |-> "single",
      classes |-> <<Classification("Rename Endpoint", 8, "x")>>]}

RawIssues == [title : Titles, body : Bodies, comments : CommentLists,
              api_taxonomy_class : LoadedVerdicts]

\* ---- the oracle (client.beta.chat.completions.parse)
\* what a request can come back with: an exception, content that json.loads
\* rejects, or a JSON object with a list of entries
AddEndpointEntry == [keys |-> AliasKeys, class_type |-> "Add Endpoint"]

ForeignLabelEntry == [keys |-> AliasKeys, class_type |-> "Breaking Change"]

FieldNameEntry == [keys |-> NameKeys, class_type |-> "Add Endpoint"]

OracleResponses ==
    {[kind |-> "raise", classes |-> <<>>],
     [kind |-> "nojson", classes |-> <<>>]} \cup
    {[kind |-> "json", classes |-> cs] :
        cs \in {<<>>, <<AddEndpointEntry>>, <<FieldNameEntry>>,
                <<AddEndpointEntry, ForeignLabelEntry>>}}

\* lines 295-296: json.loads(content) and APITaxonomyClassificationList(**result)
\* succeed
Parses(response) ==
    /\ response.kind = "json"
    /\ \A k \in DOMAIN response.classes :
          APITaxonomyClassification(response.classes[k].keys,
                                    response.classes[k].class_type)

ParsedList(response) ==
    [kind |-> "list",
     classes |-> [k \in DOMAIN response.classes |->
                    Classification(response.classes[k].class_type, 9, "e")]]

\* line 279: for i in [number_of_comments, 0]
RetryList_full(number_of_comments) == <<number_of_comments, number_of_comments>>

RetryList(number_of_comments) == <<number_of_comments, 0>>

\* line 280: comments[:i]
CommentsSlice(comments, i) == SubSeq(comments, 1, i)

\* line 302: if issue.api_taxonomy_class
HasVerdict_never(issue) == FALSE

HasVerdict(issue) == issue.api_taxonomy_class.kind # "None"

\* line 308: (body is None) and (title is None)
NoContent(issue) == issue.body = None /\ issue.title = None

ClassifyInit ==
    /\ data \in SeqsUpTo(RawIssues, MaxCorpus)
    /\ new_taxonomy_issues = <<>>
    /\ cpc = "load"
    /\ num = 1
    /\ attempt = 1
    /\ calls = <<>>
    /\ output = <<>>
    /\ crun = "first"
    /\ labelled_before = {}
    /\ IngestIdle
    /\ JoinIdle
    /\ AnnotateIdle
    /\ FilterIdle
    /\ ScrapeIdle
    /\ ScreenIdle

\* lines 262-268: Issue(**issue) for every issue; title is a required str
Load ==
    /\ cpc = "load"
    /\ IF \E i \in DOMAIN data : data[i].title = None
       THEN cpc' = "load_failed" /\ UNCHANGED new_taxonomy_issues
       ELSE cpc' = "loop" /\ new_taxonomy_issues' = data
    /\ UNCHANGED <<crun, labelled_before, data, num, attempt, calls, output, ingestVars, joinVars, annotateVars,
                   filterVars,
                   scrapeVars, screenVars>>

\* lines 302-303: an issue that carries a verdict is passed over
SkipClassified ==
    /\ cpc = "loop"
    /\ num <= Len(new_taxonomy_issues)
    /\ HasVerdict(new_taxonomy_issues[num])
    /\ num' = num + 1
    /\ UNCHANGED <<crun, labelled_before, data, new_taxonomy_issues, cpc, attempt, calls, output,
                   ingestVars, joinVars, annotateVars,
                   filterVars,
                   scrapeVars, screenVars>>

\* one pass of the for loop of analyze_content for the issue at num, with the
\* rest of the loop body once analyze_content has returned
Attempt(response) ==
    LET issue == new_taxonomy_issues[num]
        schedule == RetryList(Len(issue.comments))
        sent == CommentsSlice(issue.comments, schedule[attempt])
        ok == Parses(response)
    IN  /\ calls' = Append(calls, [num |-> num, comments |-> sent, ok |-> ok,
                                 run |-> crun])
        /\ IF ok
           THEN \* line 296 returns, line 323 stores the list
                /\ new_taxonomy_issues' =
                      [new_taxonomy_issues EXCEPT
                          ![num].api_taxonomy_class = ParsedList(response)]
                /\ num' = num + 1
                /\ attempt' = 1
                /\ cpc' = "loop"
           ELSE IF attempt < Len(schedule)
           THEN \* line 298: the exception is printed, the for loop goes on
                /\ attempt' = attempt + 1
                /\ cpc' = "retry"
                /\ UNCHANGED <<new_taxonomy_issues, num>>
           ELSE \* analyze_content returns None; line 319 builds the default
                IF APITaxonomyClassification(DefaultKeys, "Unknown")
                THEN /\ new_taxonomy_issues' =
                           [new_taxonomy_issues EXCEPT
                               ![num].api_taxonomy_class = DefaultVerdict]
                     /\ num' = num + 1
                     /\ attempt' = 1
                     /\ cpc' = "loop"
                ELSE /\ cpc' = "crashed"
                     /\ UNCHANGED <<new_taxonomy_issues, num, attempt>>
        /\ UNCHANGED <<crun, labelled_before, data, output, ingestVars, joinVars, annotateVars,
                   filterVars,
                   scrapeVars, screenVars>>

\* lines 304-316: an issue without a verdict; line 309 builds the default when
\* title and body are both None (no loaded Issue has a None title), and the
\* loop body goes on to analyze_content
FirstAttempt ==
    /\ cpc = "loop"
    /\ num <= Len(new_taxonomy_issues)
    /\ ~HasVerdict(new_taxonomy_issues[num])
    /\ IF NoContent(new_taxonomy_issues[num])
          /\ ~APITaxonomyClassification(DefaultKeys, "Unknown")
       THEN /\ cpc' = "crashed"
            /\ UNCHANGED <<crun, labelled_before, data, new_taxonomy_issues, num, attempt, calls,
                           output, ingestVars, joinVars, annotateVars,
                   filterVars,
                   scrapeVars, screenVars>>
       ELSE \E response \in OracleResponses : Attempt(response)

\* the next pass of the for loop of analyze_content
NextAttempt ==
    /\ cpc = "retry"
    /\ \E response \in OracleResponses : Attempt(response)

\* lines 327-350: every issue is written with its verdict, an issue without
\* one with a fixed Unknown entry of confidence 0.9
SavedVerdict(issue) ==
    IF issue.api_taxonomy_class.kind # "None"
    THEN issue.api_taxonomy_class
    ELSE [kind |-> "list",
          classes |-> <<Classification("Unknown", 9, "no API changes")>>]

Save ==
    /\ cpc = "loop"
    /\ num > Len(new_taxonomy_issues)
    /\ output' = [i \in DOMAIN new_taxonomy_issues |->
                    [new_taxonomy_issues[i] EXCEPT
                        !.api_taxonomy_class = SavedVerdict(new_taxonomy_issues[i])]]
    /\ cpc' = "done"
    /\ UNCHANGED <<crun, labelled_before, data, new_taxonomy_issues, num, attempt, calls, ingestVars, joinVars, annotateVars,
                   filterVars,
                   scrapeVars, screenVars>>

\* the process is stopped while the loop of lines 301-324 is running;
\* nothing has been written yet
InterruptClassify ==
    /\ cpc \in {"loop", "retry"}
    /\ cpc' = "interrupted"
    /\ UNCHANGED <<crun, labelled_before, data, new_taxonomy_issues, num,
                   attempt, calls, output, ingestVars, joinVars, annotateVars,
                   filterVars,
                   scrapeVars, screenVars>>

\* the script is started again: it reads the input file of lines 262-268,
\* which no run writes
Rerun ==
    /\ cpc \in {"done", "crashed", "interrupted"}
    /\ crun = "first"
    /\ crun' = "after_" \o cpc
    /\ labelled_before' = {i \in DOMAIN new_taxonomy_issues :
                                HasVerdict(new_taxonomy_issues[i])}
    /\ cpc' = "load"
    /\ new_taxonomy_issues' = <<>>
    /\ num' = 1
    /\ attempt' = 1
    /\ UNCHANGED <<data, calls, output, ingestVars, joinVars, annotateVars,
                   filterVars,
                   scrapeVars, screenVars>>

ClassifyNext ==
    \/ Load
    \/ SkipClassified
    \/ FirstAttempt
    \/ NextAttempt
    \/ Save

SpecClassify == ClassifyInit /\ [][ClassifyNext]_vars

\* ---- the script run twice over the same input file
RerunIssues == [title : {"t"}, body : {"", "b"}, comments : {<<>>},
                api_taxonomy_class : LoadedVerdicts]

ReclassifyInit ==
    /\ data \in SeqsUpTo(RerunIssues, MaxCorpus)
    /\ new_taxonomy_issues = <<>>
    /\ cpc = "load"
    /\ num = 1
    /\ attempt = 1
    /\ calls = <<>>
    /\ output = <<>>
    /\ crun = "first"
    /\ labelled_before = {}
    /\ IngestIdle
    /\ JoinIdle
    /\ AnnotateIdle
    /\ FilterIdle
    /\ ScrapeIdle
    /\ ScreenIdle

ReclassifyNext ==
    \/ ClassifyNext
    \/ InterruptClassify
    \/ Rerun

SpecReclassify == ReclassifyInit /\ [][ReclassifyNext]_vars

\* ------------------------------------------------------------------------
\* Cross-Reference Joiner
\* ------------------------------------------------------------------------
\* A string is a sequence of tokens: the word "integration", the characters
\* ":" and " ", and the letters of a name.
INTEGRATION_BASE_URL == <<"https://www.home-assistant.io/integrations/">>

Tags == { <<"integration", ":", " ", "a">>,
          <<"integration", ":", " ", "b">>,
          <<"integration", ":", "a">>,
          <<"b", "u", "g">> }

Apis == { INTEGRATION_BASE_URL \o <<"a">>, INTEGRATION_BASE_URL \o <<"c">> }

\* tag.startswith("integration:")
StartsWithIntegration(tag) ==
    Len(tag) >= 2 /\ tag[1] = "integration" /\ tag[2] = ":"

\* tag.split(": ")
RECURSIVE Split(_)
Split(str) ==
    LET hits == {k \in 1..(Len(str) - 1) : str[k] = ":" /\ str[k + 1] = " "}
    IN  IF hits = {}
        THEN <<str>>
        ELSE LET k == CHOOSE h \in hits : \A g \in hits : h <= g
             IN  <<SubSeq(str, 1, k - 1)>> \o Split(SubSeq(str, k + 2, Len(str)))

\* extract_integration_uris_from_tags: [1] of a split without a second part
\* raises IndexError
extract_integration_uris_from_tags_raises(tags) ==
    \E i \in DOMAIN tags :
        StartsWithIntegration(tags[i]) /\ Len(Split(tags[i])) < 2

RECURSIVE extract_integration_uris_from_tags(_)
extract_integration_uris_from_tags(tags) ==
    IF tags = <<>>
    THEN <<>>
    ELSE (IF StartsWithIntegration(Head(tags))
          THEN <<INTEGRATION_BASE_URL \o Split(Head(tags))[2]>>
          ELSE <<>>) \o extract_integration_uris_from_tags(Tail(tags))

\* filter_reports_by_apis
filter_reports_by_apis_all(reports, apis) ==
    LET keep(report) ==
            \A k \in DOMAIN report.involved_apis :
                report.involved_apis[k] \in Range(apis)
    IN  SelectSeq(reports, keep)

filter_reports_by_apis(reports, apis) ==
    LET keep(report) ==
            \E k \in DOMAIN report.involved_apis :
                report.involved_apis[k] \in Range(apis)
    IN  SelectSeq(reports, keep)

\* filter_integrations_by_apis (an integration is its api)
filter_integrations_by_apis(integs, apis) ==
    LET keep(integration) == integration \in Range(apis)
    IN  SelectSeq(integs, keep)

\* lines 117-122: the two input files; the labels of an issue and the api of
\* the integrations are distinct; ChangeReport.involved_apis defaults to []
JoinInit ==
    /\ \E tl \in SeqsUpTo({t \in SeqsUpTo(Tags, MaxTags) : NoDup(t)}, MaxReports) :
          change_reports = [i \in DOMAIN tl |->
                              [number |-> i, tags |-> tl[i],
                               involved_apis |-> <<>>]]
    /\ integrations \in {g \in SeqsUpTo(Apis, Cardinality(Apis)) : NoDup(g)}
    /\ jpc = "derive"
    /\ jnum = 1
    /\ filtered_change_reports = <<>>
    /\ filtered_integrations = <<>>
    /\ IngestIdle
    /\ ClassifyIdle
    /\ AnnotateIdle
    /\ FilterIdle
    /\ ScrapeIdle
    /\ ScreenIdle

\* lines 127-128, one report
DeriveApis ==
    /\ jpc = "derive"
    /\ jnum <= Len(change_reports)
    /\ IF extract_integration_uris_from_tags_raises(change_reports[jnum].tags)
       THEN /\ jpc' = "error"
            /\ UNCHANGED <<change_reports, jnum>>
       ELSE /\ change_reports' =
                  [change_reports EXCEPT ![jnum].involved_apis =
                      extract_integration_uris_from_tags(change_reports[jnum].tags)]
            /\ jnum' = jnum + 1
            /\ jpc' = jpc
    /\ UNCHANGED <<integrations, filtered_change_reports, filtered_integrations,
                   ingestVars, classifyVars, annotateVars,
                   filterVars,
                   scrapeVars, screenVars>>

\* lines 125 and 131-136
FilterAndSave ==
    /\ jpc = "derive"
    /\ jnum > Len(change_reports)
    /\ LET integration_apis == integrations
       IN  /\ filtered_change_reports' =
                 filter_reports_by_apis(change_reports, integration_apis)
           /\ filtered_integrations' =
                 filter_integrations_by_apis(integrations, integration_apis)
    /\ jpc' = "done"
    /\ UNCHANGED <<change_reports, integrations, jnum, ingestVars, classifyVars, annotateVars,
                   filterVars,
                   scrapeVars, screenVars>>

JoinNext ==
    \/ DeriveApis
    \/ FilterAndSave

SpecJoin == JoinInit /\ [][JoinNext]_vars

\* ------------------------------------------------------------------------
\* Annotation Reconciler
\* ------------------------------------------------------------------------
\* UserAnnotation(is_api_change=...), as it is written to the document
UserAnnotation(is_api_change) ==
    IF is_api_change THEN "is_api_change: true" ELSE "is_api_change: false"

Annotations == {None, UserAnnotation(TRUE), UserAnnotation(FALSE)}

\* Issue: number and author_annotation (title and the extra fields are
\* carried along unchanged and left out)
AnnotatedIssues(n) ==
    {iss \in [1..n -> [number : 1..n, author_annotation : Annotations]] :
        \A i \in 1..n : iss[i].number = i}

\* the input documents: a bare list of issues, or an annotation document
\* with its cursor
InputFiles(max) ==
    UNION {
        {[form |-> "list", issues |-> iss, progress |-> 0] :
            iss \in AnnotatedIssues(n)}
        \cup
        {[form |-> "annotation", issues |-> iss, progress |-> k] :
            iss \in AnnotatedIssues(n), k \in (-1)..(n + 1)}
        : n \in 0..max}

\* AnnotationData(progress=...) is declared with ge=0; open() of a missing
\* file raises
load_json_raises(file) ==
    \/ file.form = "absent"
    \/ file.form = "annotation" /\ file.progress < 0

load_json_from_start(file) == [issues |-> file.issues, progress |-> 0]

load_json(file) ==
    IF file.form = "list"
    THEN [issues |-> file.issues, progress |-> 0]
    ELSE [issues |-> file.issues, progress |-> file.progress]

save_json_processed_only(doc) ==
    [form |-> "annotation", issues |-> SubSeq(doc.issues, 1, doc.progress),
     progress |-> doc.progress]

\* json.dump(data.dict()): the file save_json leaves behind
save_json(doc) ==
    [form |-> "annotation", issues |-> doc.issues, progress |-> doc.progress]

Persist_nothing(doc) == UNCHANGED <<output_file, input_file>>

\* save_json(data, output_file); the input file is the same file when both
\* options name one path
Persist(doc) ==
    /\ output_file' = save_json(doc)
    /\ input_file' = IF same_path THEN save_json(doc) ELSE input_file

\* range(data.progress, len(data.issues)) still has an item at index i
InRange(doc, i) == i < Len(doc.issues)

AnnotateInit ==
    /\ input_file \in InputFiles(MaxItems)
    /\ same_path \in BOOLEAN
    /\ output_file = IF same_path THEN input_file ELSE Absent
    /\ answers \in [1..Len(input_file.issues) -> {"a", "d", "s"}]
    /\ annotation_data = NoDocument
    /\ apc = "start"
    /\ index = 0
    /\ aruns = 0
    /\ first_input = input_file
    /\ started_on = Absent
    /\ prompted = <<>>
    /\ prev = NoRun
    /\ IngestIdle
    /\ ClassifyIdle
    /\ JoinIdle
    /\ FilterIdle
    /\ ScrapeIdle
    /\ ScreenIdle

\* the command is run: the first time, or again after a quit or after the
\* process was interrupted; data = load_json(input_file) and the loop is
\* entered at data.progress
Start ==
    /\ apc \in {"start", "quit", "killed"}
    /\ aruns < MaxAnnotateRuns
    /\ aruns' = aruns + 1
    /\ prev' = IF apc = "start" THEN NoRun ELSE [how |-> apc, at |-> index]
    /\ started_on' = input_file
    /\ IF load_json_raises(input_file)
       THEN /\ apc' = "load_failed"
            /\ prompted' = <<>>
            /\ UNCHANGED <<annotation_data, index>>
       ELSE /\ annotation_data' = load_json(input_file)
            /\ index' = annotation_data'.progress
            /\ prompted' = IF InRange(annotation_data', index')
                           THEN <<index'>> ELSE <<>>
            /\ apc' = "loop"
    /\ UNCHANGED <<input_file, output_file, same_path, answers, first_input,
                   ingestVars, classifyVars, joinVars, filterVars,
                   scrapeVars, screenVars>>

Decide_inverted(issues, i, action) ==
    IF action = "s"
    THEN issues
    ELSE [issues EXCEPT ![i + 1].author_annotation =
                                UserAnnotation(action = "d")]

\* the effect of action a, d or s on data.issues[index]
Decide(issues, i, action) ==
    IF action = "s"
    THEN issues
    ELSE [issues EXCEPT ![i + 1].author_annotation =
                                UserAnnotation(action = "a")]

Answer_skipping_ahead ==
    /\ apc = "loop"
    /\ InRange(annotation_data, index)
    /\ annotation_data' =
            [issues |-> Decide(annotation_data.issues, index,
                               answers[index + 1]),
             progress |-> index + 2]
    /\ Persist(annotation_data')
    /\ index' = index + 1
    /\ prompted' = IF InRange(annotation_data, index + 1)
                   THEN Append(prompted, index + 1) ELSE prompted
    /\ UNCHANGED <<same_path, answers, apc, aruns, first_input, started_on,
                   prev, ingestVars, classifyVars, joinVars, filterVars,
                   scrapeVars, screenVars>>

\* the operator answers a, d or s at the prompt for data.issues[index]
Answer ==
    /\ apc = "loop"
    /\ InRange(annotation_data, index)
    /\ annotation_data' =
            [issues |-> Decide(annotation_data.issues, index,
                               answers[index + 1]),
             progress |-> index + 1]
    /\ Persist(annotation_data')
    /\ index' = index + 1
    /\ prompted' = IF InRange(annotation_data, index + 1)
                   THEN Append(prompted, index + 1) ELSE prompted
    /\ UNCHANGED <<same_path, answers, apc, aruns, first_input, started_on,
                   prev, ingestVars, classifyVars, joinVars, filterVars,
                   scrapeVars, screenVars>>

Quit_advancing ==
    /\ apc = "loop"
    /\ InRange(annotation_data, index)
    /\ annotation_data' = [annotation_data EXCEPT !.progress = index + 1]
    /\ Persist(annotation_data')
    /\ apc' = "quit"
    /\ UNCHANGED <<same_path, answers, index, aruns, first_input, started_on,
                   prompted, prev, ingestVars, classifyVars, joinVars,
                   filterVars,
                   scrapeVars, screenVars>>

\* the operator answers q
Quit ==
    /\ apc = "loop"
    /\ InRange(annotation_data, index)
    /\ annotation_data' = [annotation_data EXCEPT !.progress = index]
    /\ Persist(annotation_data')
    /\ apc' = "quit"
    /\ UNCHANGED <<same_path, answers, index, aruns, first_input, started_on,
                   prompted, prev, ingestVars, classifyVars, joinVars,
                   filterVars,
                   scrapeVars, screenVars>>

\* the process is interrupted while it waits at a prompt or before the
\* final reset
Interrupt ==
    /\ apc = "loop"
    /\ apc' = "killed"
    /\ UNCHANGED <<input_file, output_file, same_path, answers,
                   annotation_data, index, aruns, first_input, started_on,
                   prompted, prev, ingestVars, classifyVars, joinVars,
                   filterVars,
                   scrapeVars, screenVars>>

Finish_keeps_cursor ==
    /\ apc = "loop"
    /\ ~InRange(annotation_data, index)
    /\ Persist(annotation_data)
    /\ apc' = "done"
    /\ UNCHANGED <<same_path, answers, annotation_data, index, aruns,
                   first_input, started_on, prompted, prev, ingestVars,
                   classifyVars, joinVars, filterVars,
                   scrapeVars, screenVars>>

\* the loop is over: data.progress = 0 and the last save
Finish ==
    /\ apc = "loop"
    /\ ~InRange(annotation_data, index)
    /\ annotation_data' = [annotation_data EXCEPT !.progress = 0]
    /\ Persist(annotation_data')
    /\ apc' = "done"
    /\ UNCHANGED <<same_path, answers, index, aruns, first_input, started_on,
                   prompted, prev, ingestVars, classifyVars, joinVars,
                   filterVars,
                   scrapeVars, screenVars>>

AnnotateNext ==
    \/ Start
    \/ Answer
    \/ Quit
    \/ Interrupt
    \/ Finish

SpecAnnotate == AnnotateInit /\ [][AnnotateNext]_vars

\* ------------------------------------------------------------------------
\* Relevance Filter
\* ------------------------------------------------------------------------
SEARCH_THRESHOLD == 60

Thresholds == {0, SEARCH_THRESHOLD, 100}

\* Sample texts.  fuzz.partial_ratio of the joined search terms against a
\* text is the library's; the model fixes it per sample text: the empty
\* text scores 0, the others are named after their score.
Texts == {"", "s59", "s60", "s100"}

partial_ratio(text) ==
    CASE text = "" -> 0
      [] text = "s59" -> 59
      [] text = "s60" -> 60
      [] text = "s100" -> 100

\* process.extractOne(query, [text], scorer): the one choice and its score
perform_fuzzy_match(text) == [match |-> text, score |-> partial_ratio(text)]

\* truth value of an Optional[str]
Truthy(x) == x # None /\ x # ""

Qualifies_strict(m, t) == Truthy(m.match) /\ m.score > t

Qualifies_reversed(m, t) == Truthy(m.match) /\ m.score <= t

\* "if title_match and title_score >= threshold" and its two siblings
Qualifies(m, t) == Truthy(m.match) /\ m.score >= t

\* issue.body or ""
BodyText(body) == IF body = None THEN "" ELSE body

CommentType(id) == IF id = 1 THEN "comment_1" ELSE "comment_2"

MatchOf(type, m) == [type |-> type, matched_term |-> m.match, score |-> m.score]

RECURSIVE CommentMatches_first(_, _)
CommentMatches_first(comments, t) ==
    IF comments = <<>>
    THEN <<>>
    ELSE LET m == perform_fuzzy_match(Head(comments).body)
         IN  IF Qualifies(m, t)
             THEN <<MatchOf(CommentType(Head(comments).id), m)>>
             ELSE CommentMatches_first(Tail(comments), t)

RECURSIVE CommentMatches(_, _)
CommentMatches(comments, t) ==
    IF comments = <<>>
    THEN <<>>
    ELSE LET m == perform_fuzzy_match(Head(comments).body)
         IN  (IF Qualifies(m, t)
              THEN <<MatchOf(CommentType(Head(comments).id), m)>>
              ELSE <<>>) \o CommentMatches(Tail(comments), t)

search_single_issue(issue, t) ==
    LET title == perform_fuzzy_match(issue.title)
        body == perform_fuzzy_match(BodyText(issue.body))
    IN  [issue |-> issue,
         matches |->
            (IF Qualifies(title, t) THEN <<MatchOf("title", title)>> ELSE <<>>)
            \o (IF Qualifies(body, t) THEN <<MatchOf("body", body)>> ELSE <<>>)
            \o CommentMatches(issue.comments, t)]

\* key of the sort: max(match["score"] for match in x.matches)
MaxScore(result) == MaxOf({result.matches[k].score : k \in DOMAIN result.matches})

\* insertion of x behind the entries whose key is at least its own: the
\* stable sort by descending key that sorted(..., reverse=True) performs
RECURSIVE InsertDescending(_, _)
InsertDescending(x, sorted) ==
    IF sorted = <<>>
    THEN <<x>>
    ELSE IF MaxScore(Head(sorted)) >= MaxScore(x)
         THEN <<Head(sorted)>> \o InsertDescending(x, Tail(sorted))
         ELSE <<x>> \o sorted

Sorted_unsorted(rs) == rs

RECURSIVE Sorted(_)
Sorted(rs) ==
    IF rs = <<>>
    THEN <<>>
    ELSE InsertDescending(rs[Len(rs)], Sorted(SubSeq(rs, 1, Len(rs) - 1)))

RECURSIVE Matching(_, _)
Matching(issues, t) ==
    IF issues = <<>>
    THEN <<>>
    ELSE LET issue_result == search_single_issue(Head(issues), t)
         IN  (IF issue_result.matches # <<>> THEN <<issue_result>> ELSE <<>>)
             \o Matching(Tail(issues), t)

search_issues_and_comments(issues, t) == Sorted(Matching(issues, t))

FilterComments ==
    {<<>>, <<[id |-> 1, body |-> "s59"], [id |-> 2, body |-> "s100"]>>}

\* title, body and comments of the sample issues (the other fields of Issue
\* are not read by the search)
FilterIssueFields ==
    [title : {"", "s59", "s100"}, body : {None, "s60"},
     comments : FilterComments]

\* the loaded issues: issue numbers are distinct (here: the position)
Numbered(f) ==
    [i \in DOMAIN f |-> [number |-> i, title |-> f[i].title,
                         body |-> f[i].body,
                         state |-> IF i % 2 = 1 THEN "open" ELSE "closed",
                         tags |-> IF i = 1 THEN <<>> ELSE <<"integration: x">>,
                         comments |-> f[i].comments]]

FilterInit ==
    /\ \E n \in 0..MaxFilterCorpus :
            \E f \in [1..n -> FilterIssueFields] : corpus = Numbered(f)
    /\ threshold \in Thresholds
    /\ fpc = "search"
    /\ fnum = 1
    /\ results = <<>>
    /\ search_results = <<>>
    /\ saved_results = <<>>
    /\ IngestIdle
    /\ ClassifyIdle
    /\ JoinIdle
    /\ AnnotateIdle
    /\ ScrapeIdle
    /\ ScreenIdle

\* one iteration of "for issue in repository.issues"
SearchIssue ==
    /\ fpc = "search"
    /\ fnum <= Len(corpus)
    /\ LET issue_result == search_single_issue(corpus[fnum], threshold)
       IN  results' = IF issue_result.matches # <<>>
                      THEN Append(results, issue_result)
                      ELSE results
    /\ fnum' = fnum + 1
    /\ UNCHANGED <<corpus, threshold, fpc, search_results, saved_results,
                   ingestVars, classifyVars, joinVars, annotateVars,
                   scrapeVars, screenVars>>

\* return sorted(results, key=..., reverse=True)
ReturnSorted ==
    /\ fpc = "search"
    /\ fnum > Len(corpus)
    /\ search_results' = Sorted(results)
    /\ fpc' = "done"
    /\ UNCHANGED <<corpus, threshold, fnum, results, saved_results,
                   ingestVars, classifyVars, joinVars, annotateVars,
                   scrapeVars, screenVars>>

SearchResultItem_body_or_empty(result) ==
    [number |-> result.issue.number,
     title |-> result.issue.title,
     body |-> BodyText(result.issue.body),
     state |-> result.issue.state,
     matches |-> result.matches,
     comments |-> result.issue.comments,
     tags |-> result.issue.tags]

\* SearchResultItem(number=result.issue.number, ...): the issue's fields
\* next to its matches (the three timestamps, renamed created, updated and
\* closed, are not modelled)
SearchResultItem(result) ==
    [number |-> result.issue.number,
     title |-> result.issue.title,
     body |-> result.issue.body,
     state |-> result.issue.state,
     matches |-> result.matches,
     comments |-> result.issue.comments,
     tags |-> result.issue.tags]

\* save_results_to_json_file(search_results, OUTPUT_JSON_FILENAME)
SaveResults ==
    /\ fpc = "done"
    /\ saved_results' =
            [k \in DOMAIN search_results |-> SearchResultItem(search_results[k])]
    /\ fpc' = "saved"
    /\ UNCHANGED <<corpus, threshold, fnum, results, search_results,
                   ingestVars, classifyVars, joinVars, annotateVars,
                   scrapeVars, screenVars>>

FilterNext ==
    \/ SearchIssue
    \/ ReturnSorted
    \/ SaveResults

SpecFilter == FilterInit /\ [][FilterNext]_vars

\* ------------------------------------------------------------------------
\* Integration Scraper
\* ------------------------------------------------------------------------
VALID_IOT_CLASSES == {"Local Polling", "Cloud Polling", "Local Push", "Cloud Push"}

VALID_IOT_CATEGORY == {
    "Alarm", "Automation", "Binary Sensor", "Button", "Camera", "Car",
    "Climate", "Cover", "Device automation", "Device tracker", "Doorbell",
    "Energy", "Environment", "Fan", "Health", "Hub", "Humidifier", "Image",
    "Irrigation", "Lawnmower", "Light", "Lock", "Media player",
    "Media source", "Number", "Plug", "Presence detection", "Scene",
    "Select", "Sensor", "Siren", "Switch", "Transport", "Vaccum", "Valve",
    "Voice", "Water heater", "Weather" }

\* sample texts of the intro section of a page
IntroTexts == {
    "",
    "Its IoT class is Local Polling.",
    "Its IoT class is Cloud Polling.",
    "Its IoT class is Local Push.",
    "Its IoT class is Cloud Push.",
    "Its IoT class is Assumed State.",
    "Its IoT class is cloud push.",
    "Its IoT class is Cloud Push" }

\* re.search(r"Its IoT class is (.+?)\.", text): the words up to the first
\* full stop, "Unknown" without a match
extract_iot_class(text) ==
    CASE text = "Its IoT class is Local Polling." -> "Local Polling"
      [] text = "Its IoT class is Cloud Polling." -> "Cloud Polling"
      [] text = "Its IoT class is Local Push." -> "Local Push"
      [] text = "Its IoT class is Cloud Push." -> "Cloud Push"
      [] text = "Its IoT class is Assumed State." -> "Assumed State"
      [] text = "Its IoT class is cloud push." -> "cloud push"
      [] OTHER -> "Unknown"

\* str.lower() on the values extract_iot_class can return
Lower(str) ==
    CASE str = "Local Polling" -> "local polling"
      [] str = "Cloud Polling" -> "cloud polling"
      [] str = "Local Push" -> "local push"
      [] str = "Cloud Push" -> "cloud push"
      [] str = "Assumed State" -> "assumed state"
      [] str = "Unknown" -> "unknown"
      [] OTHER -> str

\* word in str, for the words "cloud" and "push" and the strings above
Contains(str, word) ==
    CASE word = "cloud" -> str \in {"cloud polling", "cloud push"}
      [] word = "push" -> str \in {"local push", "cloud push"}

deployment_type_exact(iot_class) ==
    IF Contains(iot_class, "cloud") THEN "Cloud" ELSE "Local"

\* "Cloud" if "cloud" in iot_class.lower() else "Local"
deployment_type(iot_class) ==
    IF Contains(Lower(iot_class), "cloud") THEN "Cloud" ELSE "Local"

\* "Push" if "push" in iot_class.lower() else "Polling"
communication_mechanism(iot_class) ==
    IF Contains(Lower(iot_class), "push") THEN "Push" ELSE "Polling"

\* sample texts of the links of the category module
CategoryLists == {<<>>, <<"Other">>, <<"Light">>, <<"Other", "Sensor">>}

\* what requests.get returns for a url: the status and, of the page, whether
\* it has the sidebar, whether the sidebar has the intro section, the text of
\* that section and the categories
PageKinds ==
    {[status |-> 404, sidebar |-> FALSE, intro_section |-> FALSE,
      intro_text |-> "", categories |-> <<>>],
     [status |-> 200, sidebar |-> FALSE, intro_section |-> FALSE,
      intro_text |-> "", categories |-> <<>>],
     [status |-> 200, sidebar |-> TRUE, intro_section |-> FALSE,
      intro_text |-> "", categories |-> <<>>]}
    \cup [status : {200}, sidebar : {TRUE}, intro_section : {TRUE},
          intro_text : IntroTexts, categories : CategoryLists]

\* extract_integration_info: no record (None, here the empty list) without
\* the sidebar or its intro section, otherwise the record with its two
\* derived fields (introduction_version and content are not modelled)
extract_integration_info(page, api) ==
    IF ~page.sidebar \/ ~page.intro_section
    THEN <<>>
    ELSE LET iot_class == extract_iot_class(page.intro_text)
         IN  <<[api |-> api,
                iot_class |-> iot_class,
                categories |-> page.categories,
                deployment_type |-> deployment_type(iot_class),
                communication_mechanism |-> communication_mechanism(iot_class)]>>

fetch_integration_info(page, url) ==
    IF page.status = 200 THEN extract_integration_info(page, url) ELSE <<>>

save_integrations_all(integs) == integs

\* save_integrations: the records with a valid iot_class and at least one
\* valid category, as they are
save_integrations(integs) ==
    LET valid(integration) ==
            /\ integration.iot_class \in VALID_IOT_CLASSES
            /\ \E category \in VALID_IOT_CATEGORY :
                    category \in Range(integration.categories)
    IN  SelectSeq(integs, valid)

\* load_integration_urls; the url of a page is its position in the file
ScrapeInit ==
    /\ urls \in SeqsUpTo(PageKinds, MaxPages)
    /\ scpc = "loop"
    /\ scnum = 1
    /\ scraped = <<>>
    /\ integrations_file = <<>>
    /\ IngestIdle
    /\ ClassifyIdle
    /\ JoinIdle
    /\ AnnotateIdle
    /\ FilterIdle
    /\ ScreenIdle

FetchPage_aborts ==
    /\ scpc = "loop"
    /\ scnum <= Len(urls)
    /\ LET integration_info == fetch_integration_info(urls[scnum], scnum)
       IN  IF integration_info = <<>>
           THEN scpc' = "aborted" /\ UNCHANGED <<scraped, scnum>>
           ELSE /\ scraped' = scraped \o integration_info
                /\ scnum' = scnum + 1
                /\ scpc' = scpc
    /\ UNCHANGED <<urls, integrations_file, ingestVars, classifyVars,
                   joinVars, annotateVars, filterVars, screenVars>>

\* one iteration of "for url in urls": a page without a record is passed over
FetchPage ==
    /\ scpc = "loop"
    /\ scnum <= Len(urls)
    /\ scraped' = scraped \o fetch_integration_info(urls[scnum], scnum)
    /\ scnum' = scnum + 1
    /\ UNCHANGED <<urls, scpc, integrations_file, ingestVars, classifyVars,
                   joinVars, annotateVars, filterVars, screenVars>>

\* save_integrations(integrations, OUTPUT_FILE_PATH) after the loop
SaveIntegrations ==
    /\ scpc = "loop"
    /\ scnum > Len(urls)
    /\ integrations_file' = save_integrations(scraped)
    /\ scpc' = "saved"
    /\ UNCHANGED <<urls, scnum, scraped, ingestVars, classifyVars, joinVars,
                   annotateVars, filterVars, screenVars>>

ScrapeNext ==
    \/ FetchPage
    \/ SaveIntegrations

SpecScrape == ScrapeInit /\ [][ScrapeNext]_vars

\* ------------------------------------------------------------------------
\* LLM Screening
\* ------------------------------------------------------------------------
\* AnalysisRecord(issue_number, analysis_result, timestamp); the timestamp
\* (datetime.utcnow) is the count of oracle calls made so far
AnalysisRecord(issue_number, is_api_related, timestamp) ==
    [issue_number |-> issue_number, is_api_related |-> is_api_related,
     timestamp |-> timestamp]

\* record.dict() under json.dump(default=str): the timestamp becomes text
Dumped(record) ==
    [issue_number |-> record.issue_number,
     is_api_related |-> record.is_api_related,
     timestamp |-> <<"str", record.timestamp>>]

\* AnalysisRecord(**record): the text is parsed back into the datetime
Parsed(entry) ==
    AnalysisRecord(entry.issue_number, entry.is_api_related,
                   entry.timestamp[2])

\* the keys of a dictionary of records (held in insertion order)
Keys(dict) == {dict[k].issue_number : k \in DOMAIN dict}

\* dict[record.issue_number] = record: an existing key keeps its place
Put(dict, record) ==
    IF record.issue_number \in Keys(dict)
    THEN [k \in DOMAIN dict |->
            IF dict[k].issue_number = record.issue_number
            THEN record ELSE dict[k]]
    ELSE Append(dict, record)

RECURSIVE FromEntries(_)
FromEntries(entries) ==
    IF entries = <<>>
    THEN <<>>
    ELSE Put(FromEntries(SubSeq(entries, 1, Len(entries) - 1)),
             Parsed(entries[Len(entries)]))

\* load_existing_results: {} when the file does not exist
load_existing_results(file) ==
    IF file.exists THEN FromEntries(file.records) ELSE <<>>

save_result_alone(file, record) ==
    [exists |-> TRUE, records |-> <<Dumped(record)>>]

\* save_result: the file is read again, the record is put under its issue
\* number and all records are written
save_result(file, record) ==
    LET existing == Put(load_existing_results(file), record)
    IN  [exists |-> TRUE,
         records |-> [k \in DOMAIN existing |-> Dumped(existing[k])]]

\* the search results carry distinct issue numbers; no result file before
\* the first run
ScreenInit ==
    /\ search_items \in {s \in SeqsUpTo(IssueNumbers, MaxIssueNumber) : NoDup(s)}
    /\ results_file = NoResultsFile
    /\ existing_results = <<>>
    /\ lpc = "idle"
    /\ lnum = 1
    /\ analysis = NoAnalysis
    /\ submitted = <<>>
    /\ lruns = 0
    /\ IngestIdle
    /\ ClassifyIdle
    /\ JoinIdle
    /\ AnnotateIdle
    /\ FilterIdle
    /\ ScrapeIdle

\* main() is run, for the first time or again: lines 233-234
ScreenStart ==
    /\ lpc \in {"idle", "aborted", "done"}
    /\ lruns < MaxRuns
    /\ lruns' = lruns + 1
    /\ existing_results' = load_existing_results(results_file)
    /\ lnum' = 1
    /\ lpc' = "loop"
    /\ UNCHANGED <<search_items, results_file, analysis, submitted,
                   ingestVars, classifyVars, joinVars, annotateVars,
                   filterVars, scrapeVars>>

\* if result.issue_number in existing_results: continue
SkipAnalysed ==
    /\ lpc = "loop"
    /\ lnum <= Len(search_items)
    /\ search_items[lnum] \in Keys(existing_results)
    /\ lnum' = lnum + 1
    /\ UNCHANGED <<search_items, results_file, existing_results, lpc,
                   analysis, submitted, lruns, ingestVars, classifyVars,
                   joinVars, annotateVars, filterVars, scrapeVars>>

\* analyze_content returns the oracle's answer
Analyse(is_api_related) ==
    /\ lpc = "loop"
    /\ lnum <= Len(search_items)
    /\ search_items[lnum] \notin Keys(existing_results)
    /\ analysis' = [held |-> TRUE, is_api_related |-> is_api_related]
    /\ submitted' = Append(submitted, [run |-> lruns,
                                       number |-> search_items[lnum],
                                       ok |-> TRUE])
    /\ lpc' = "save"
    /\ UNCHANGED <<search_items, results_file, existing_results, lnum, lruns,
                   ingestVars, classifyVars, joinVars, annotateVars,
                   filterVars, scrapeVars>>

\* analyze_content raises (network, unparseable answer): nothing catches
\* it and the run ends
OracleError ==
    /\ lpc = "loop"
    /\ lnum <= Len(search_items)
    /\ search_items[lnum] \notin Keys(existing_results)
    /\ submitted' = Append(submitted, [run |-> lruns,
                                       number |-> search_items[lnum],
                                       ok |-> FALSE])
    /\ lpc' = "aborted"
    /\ UNCHANGED <<search_items, results_file, existing_results, lnum,
                   analysis, lruns, ingestVars, classifyVars, joinVars,
                   annotateVars, filterVars, scrapeVars>>

\* lines 203-209: the record is built and save_result writes the file
SaveResult ==
    /\ lpc = "save"
    /\ results_file' =
            save_result(results_file,
                        AnalysisRecord(search_items[lnum],
                                       analysis.is_api_related,
                                       Len(submitted)))
    /\ analysis' = NoAnalysis
    /\ lnum' = lnum + 1
    /\ lpc' = "loop"
    /\ UNCHANGED <<search_items, existing_results, submitted, lruns,
                   ingestVars, classifyVars, joinVars, annotateVars,
                   filterVars, scrapeVars>>

\* the for loop is over
ScreenDone ==
    /\ lpc = "loop"
    /\ lnum > Len(search_items)
    /\ lpc' = "done"
    /\ UNCHANGED <<search_items, results_file, existing_results, lnum,
                   analysis, submitted, lruns, ingestVars, classifyVars,
                   joinVars, annotateVars, filterVars, scrapeVars>>

ScreenNext ==
    \/ ScreenStart
    \/ SkipAnalysed
    \/ \E is_api_related \in BOOLEAN : Analyse(is_api_related)
    \/ OracleError
    \/ SaveResult
    \/ ScreenDone

SpecScreen == ScreenInit /\ [][ScreenNext]_vars

\* ------------------------------------------------------------------------
\* Corpus Store: properties
\* ------------------------------------------------------------------------
\* The (suffix, index) places of the batch directory
StoredPlaces == {p \in (DOMAIN directory) \X (1..(MaxIssueNumber + MaxSeedLen)) :
                    p[2] <= Len(directory[p[1]])}

\* C1: after any sequence of ingestion runs against a fixed source with
\* distinct issue numbers, no issue number is persisted twice: neither twice
\* in one batch nor in two different batches.
C1_DedupInvariant ==
    \A p, q \in StoredPlaces :
        p # q => directory[p[1]][p[2]] # directory[q[1]][q[2]]

\* a run has stored a batch next to an earlier one after skipping an issue of
\* the source that was already stored
C1_Witness ==
    /\ Cardinality(DOMAIN directory) >= 2
    /\ outcome = "stored"
    /\ \E i \in DOMAIN source : i <= pos /\ source[i] \notin Range(repository)

\* the issue numbers held by the batch files
StoredNumbers == {directory[p[1]][p[2]] : p \in StoredPlaces}

CaughtUp == Range(source) \subseteq StoredNumbers

\* C17: once every issue number of the source is stored in some batch, a
\* further ingestion run writes no new batch file and leaves the batch
\* directory unchanged.
C17_IdempotentOnceCaughtUp ==
    [][CaughtUp => /\ directory' = directory
                   /\ outcome' = "stored" => outcome = "stored"]_vars

\* a run stored a batch next to the seed batch, and a further run over the
\* same source found nothing to store
C17_Witness ==
    /\ source # <<>>
    /\ CaughtUp
    /\ runs >= 2
    /\ ipc = "idle"
    /\ outcome = "nothing"
    /\ Cardinality(DOMAIN directory) >= 2

\* C21: every batch file an ingestion run writes gets the suffix one greater
\* than the maximum suffix present at that moment; a suffix is never reused
\* and no existing batch file is overwritten.
C21_BatchNumbering ==
    [][directory' # directory =>
        /\ DOMAIN directory # {}
        /\ DOMAIN directory' =
                DOMAIN directory \cup {MaxOf(DOMAIN directory) + 1}
        /\ MaxOf(DOMAIN directory) + 1 \notin DOMAIN directory
        /\ \A m \in DOMAIN directory : directory'[m] = directory[m]]_vars

\* two runs have written the batches 5 and 6 next to the seed batch 4
C21_Witness ==
    /\ outcome = "stored"
    /\ DOMAIN directory = {4, 5, 6}

\* the batches joined in ascending order of their number
RECURSIVE AscendingConcat(_, _)
AscendingConcat(dir, suffixes) ==
    IF suffixes = {}
    THEN <<>>
    ELSE LET least == CHOOSE n \in suffixes : \A m \in suffixes : n <= m
         IN  dir[least] \o AscendingConcat(dir, suffixes \ {least})

\* C22: load_all_issues returns the issues of all stored batches joined in
\* ascending batch-number order, the order inside each batch kept, for any
\* set of batch numbers, one-digit and multi-digit suffixes mixed included.
C22_ReconstructionOrder ==
    (ipc = "idle" /\ outcome \in {"stored", "nothing"}) =>
        all_issues = AscendingConcat(directory, DOMAIN directory)

\* C23: when fetching the comments or labels of an issue fails, the run
\* stops and writes or modifies no batch file (the issues it had collected
\* are not persisted), and the next run does not find them in its set of
\* stored numbers, so it fetches them again.
C23_AllOrNothing ==
    [][/\ (outcome = "running" /\ outcome' = "error") =>
                directory' = directory /\ ipc' = "idle"
       /\ (outcome = "error" /\ outcome' = "running") =>
                Range(repository) \cap stored_issues' = {}]_vars

\* a fetch failed after the run had collected an issue, with batches present
C23_Witness ==
    /\ token
    /\ ipc = "idle"
    /\ outcome = "error"
    /\ repository # <<>>
    /\ directory # EmptyDir
    /\ pos <= Len(source)

\* C24: without the tracker token a run fails at startup, before it contacts
\* the tracker, and writes or modifies no batch file.
C24_MissingCredentials ==
    [][~token =>
        /\ directory' = directory
        /\ ipc' = "idle"
        /\ stored_issues' = stored_issues
        /\ repository' = repository
        /\ runs' > runs => outcome' = "error"]_vars

\* a run without the token has failed next to a seed batch
C24_Witness ==
    /\ ~token
    /\ runs >= 1
    /\ outcome = "error"
    /\ directory # EmptyDir
    /\ source # <<>>

\* C30: if two ingestion processes run concurrently against the same batch
\* directory and choose the same batch suffix, at least one of them fails:
\* a process that stores under a suffix another process has written in the
\* meantime ends with an error and leaves the file as it is.
C30_RacingWriters ==
    [][\A w \in Writers :
        (/\ writers[w].wpc = "store"
         /\ writers'[w].wpc # "store"
         /\ writers[w].number \in DOMAIN directory) =>
            /\ writers'[w].outcome = "error"
            /\ directory' = directory]_vars

\* C32: an ingestion run never changes the content of a batch file that
\* existed before; over any sequence of single-writer runs every (suffix,
\* content) pair of the directory stays, so the set of pairs only grows.
C32_ImmutableBatches ==
    [][\A n \in DOMAIN directory :
          /\ n \in DOMAIN directory'
          /\ directory'[n] = directory[n]]_vars

\* a run has written batch 2 with one issue next to a seed batch 1 of two
C32_Witness ==
    /\ outcome = "stored"
    /\ DOMAIN directory = {1, 2}
    /\ Len(directory[1]) = 2
    /\ Len(directory[2]) = 1

\* the source issues not stored in any batch, in the tracker's order
Unseen == SelectSeq(source, LAMBDA x : x \notin StoredNumbers)

Min(a, b) == IF a <= b THEN a ELSE b

\* C25: whatever batches exist (none included), a run against a source with
\* n >= 1 issues not yet stored writes exactly one new batch, which holds the
\* first min(BATCH_SIZE, n) such issues in the tracker's order.
C25_FetchBatchContents ==
    [][(ipc = "collected" /\ ipc' # "collected" /\ Unseen # <<>>) =>
        \E n \in DOMAIN directory' \ DOMAIN directory :
            /\ DOMAIN directory' = DOMAIN directory \cup {n}
            /\ \A m \in DOMAIN directory : directory'[m] = directory[m]
            /\ directory'[n] =
                  SubSeq(Unseen, 1, Min(BATCH_SIZE, Len(Unseen)))]_vars

\* ------------------------------------------------------------------------
\* Taxonomy Classifier: properties
\* ------------------------------------------------------------------------
EmptyContent(issue) == issue.title \in {None, ""} /\ issue.body \in {None, ""}

CallsOf(i) == {k \in DOMAIN calls : calls[k].num = i}

FailedCallsOf(i) == {k \in CallsOf(i) : ~calls[k].ok}

Loaded == cpc \in {"loop", "retry", "crashed", "done"}

\* the loop body has been left for issue i
Visited(i) == Loaded /\ (i < num \/ (i = num /\ cpc = "crashed"))

\* C2: an issue whose title and body are both absent or empty is never sent
\* to the oracle.
C2_NoOracleCallOnEmptyContent ==
    \A k \in DOMAIN calls : ~EmptyContent(data[calls[k].num])

\* C3: an issue whose title and body are both absent or empty ends up with
\* exactly the entry (Unknown, 0.0, "No content to analyze"), whatever the
\* oracle would answer.
C3_EmptyContentGetsDefault ==
    \A i \in DOMAIN new_taxonomy_issues :
        (Visited(i) /\ EmptyContent(data[i])
                    /\ data[i].api_taxonomy_class = NoVerdict)
        => new_taxonomy_issues[i].api_taxonomy_class.classes
              = DefaultVerdict.classes

\* C4: an issue that carries a verdict when the loop reaches it is not sent
\* to the oracle and keeps its verdict.
C4_IdempotentClassification ==
    Loaded =>
        \A i \in DOMAIN data :
            data[i].api_taxonomy_class # NoVerdict
            => /\ CallsOf(i) = {}
               /\ new_taxonomy_issues[i].api_taxonomy_class
                     = data[i].api_taxonomy_class

\* the run is over, it left a loaded verdict alone and classified another issue
C4_Witness ==
    /\ cpc = "done"
    /\ \E i, j \in DOMAIN data :
          /\ data[i].api_taxonomy_class # NoVerdict
          /\ output[i].api_taxonomy_class = data[i].api_taxonomy_class
          /\ CallsOf(j) # {}

\* C5: the first request for an issue carries all its comments; a second is
\* sent only after a failed first and carries no comment; there is no third;
\* a failed first is followed by the second before the issue is left.
C5_RetryPolicy ==
    /\ \A k \in DOMAIN calls :
          LET i == calls[k].num
              earlier == {j \in CallsOf(i) : j < k}
          IN  /\ Cardinality(earlier) <= 1
              /\ earlier = {} => calls[k].comments = data[i].comments
              /\ \A j \in earlier : ~calls[j].ok /\ calls[k].comments = <<>>
    /\ \A i \in DOMAIN new_taxonomy_issues :
          (Visited(i) /\ FailedCallsOf(i) # {}) => Cardinality(CallsOf(i)) = 2

\* an issue with comments whose first request failed and whose second, sent
\* without comments, was answered
C5_Witness ==
    \E i \in DOMAIN new_taxonomy_issues :
        /\ Visited(i)
        /\ data[i].comments # <<>>
        /\ \E j, k \in CallsOf(i) :
              /\ j < k
              /\ calls[j].comments = data[i].comments /\ ~calls[j].ok
              /\ calls[k].comments = <<>> /\ calls[k].ok

\* C6: when both requests for an issue fail, the issue gets exactly the entry
\* (Unknown, 0.0, "No content to analyze") and the run is not aborted.
C6_BothFailRecordsUnknown ==
    \A i \in DOMAIN new_taxonomy_issues :
        (Visited(i) /\ Cardinality(FailedCallsOf(i)) = 2)
        => /\ cpc # "crashed"
           /\ new_taxonomy_issues[i].api_taxonomy_class.classes
                 = DefaultVerdict.classes

\* C7: no verdict carries a label outside the taxonomy plus Unknown: an
\* answer with such a label counts as a failed request.
C7_ClosedTaxonomy ==
    /\ \A i \in DOMAIN new_taxonomy_issues :
          \A c \in Range(new_taxonomy_issues[i].api_taxonomy_class.classes) :
              c.class_type \in IoTAPIChangesList
    /\ \A i \in DOMAIN output :
          \A c \in Range(output[i].api_taxonomy_class.classes) :
              c.class_type \in IoTAPIChangesList

\* C8: whatever requests fail, the loop visits every issue and ends with a
\* verdict on every issue.
C8_RunsToCompletion ==
    /\ cpc # "crashed"
    /\ cpc = "done" =>
          /\ num = Len(new_taxonomy_issues) + 1
          /\ \A i \in DOMAIN new_taxonomy_issues :
                new_taxonomy_issues[i].api_taxonomy_class # NoVerdict

\* C26: the verdict of an issue is written at most once; once it is
\* non-null, no later step of the same run or of a later run replaces it
\* with a different value, neither in memory nor in the output file.
C26_SingleAssignment ==
    [][/\ \A i \in DOMAIN new_taxonomy_issues \cap DOMAIN new_taxonomy_issues' :
            HasVerdict(new_taxonomy_issues[i]) =>
                new_taxonomy_issues'[i].api_taxonomy_class =
                    new_taxonomy_issues[i].api_taxonomy_class
       /\ \A i \in DOMAIN output \cap DOMAIN output' :
            output'[i].api_taxonomy_class = output[i].api_taxonomy_class]_vars

\* C27: when a classification run is interrupted after some issues have
\* received verdicts, the next run does not send those issues to the oracle
\* again.
C27_RerunAfterInterruption ==
    \A k \in DOMAIN calls :
        calls[k].run = "after_interrupted" => calls[k].num \notin labelled_before

\* ------------------------------------------------------------------------
\* Cross-Reference Joiner: properties
\* ------------------------------------------------------------------------
\* the identifiers the integration tags of a report stand for
WellFormed(tag) ==
    StartsWithIntegration(tag) => (Len(tag) >= 3 /\ tag[3] = " ")

DerivedIds(report) ==
    {INTEGRATION_BASE_URL \o Split(tag)[2] :
        tag \in {t \in Range(report.tags) :
                    StartsWithIntegration(t) /\ WellFormed(t)}}

\* C9: every retained integration is referenced by at least one retained
\* issue.
C9_RetainedIntegrationsAreReferenced ==
    jpc = "done" =>
        \A k \in DOMAIN filtered_integrations :
            \E r \in Range(filtered_change_reports) :
                filtered_integrations[k] \in DerivedIds(r)

\* C10: a retained issue has a tag-derived identifier of a known integration
\* and references a retained integration; an issue whose integration tags
\* all name unknown integrations is dropped, and no error comes from it.
C10_RetainedIssuesReferenceKnown ==
    /\ jpc = "done" =>
          /\ \A r \in Range(filtered_change_reports) :
                /\ r \in Range(change_reports)
                /\ DerivedIds(r) \cap Range(integrations) # {}
                /\ DerivedIds(r) \cap Range(filtered_integrations) # {}
          /\ \A r \in Range(change_reports) :
                DerivedIds(r) \cap Range(integrations) = {}
                => r \notin Range(filtered_change_reports)
    /\ jpc = "error" =>
          \E t \in Range(change_reports[jnum].tags) : ~WellFormed(t)

\* the join kept one report and dropped another whose only integration tags
\* name an unknown integration
C10_Witness ==
    /\ jpc = "done"
    /\ filtered_change_reports # <<>>
    /\ \E r \in Range(change_reports) :
          /\ DerivedIds(r) # {}
          /\ DerivedIds(r) \cap Range(integrations) = {}
          /\ r \notin Range(filtered_change_reports)

\* the name an integration tag carries: what follows "integration:" and the
\* blank after it, if there is one
NameOf(tag) ==
    IF Len(tag) >= 3 /\ tag[3] = " "
    THEN SubSeq(tag, 4, Len(tag))
    ELSE SubSeq(tag, 3, Len(tag))

\* one canonical URI for each integration tag, in the order of the tags
RECURSIVE CanonicalUris(_)
CanonicalUris(tags) ==
    IF tags = <<>>
    THEN <<>>
    ELSE (IF StartsWithIntegration(Head(tags))
          THEN <<INTEGRATION_BASE_URL \o NameOf(Head(tags))>>
          ELSE <<>>) \o CanonicalUris(Tail(tags))

\* C31: for every tag list, extract_integration_uris_from_tags returns one
\* canonical URI (base URL followed by the name) for each tag that starts
\* with "integration:" and nothing for any other tag, and no tag that starts
\* with "integration:" makes it raise an error.
C31_TagDerivation ==
    /\ jpc # "error"
    /\ \A i \in DOMAIN change_reports :
          i < jnum =>
             change_reports[i].involved_apis =
                CanonicalUris(change_reports[i].tags)

\* ------------------------------------------------------------------------
\* Annotation Reconciler: properties
\* ------------------------------------------------------------------------
\* the annotation the operator's decision leaves on an item
Decided(before, action) ==
    CASE action = "a" -> UserAnnotation(TRUE)
      [] action = "d" -> UserAnnotation(FALSE)
      [] OTHER -> before

\* the cursor a run on this file begins at
CursorOf(file) == IF file.form = "annotation" THEN file.progress ELSE 0

\* the document one uninterrupted pass over this file leaves behind
Uninterrupted(file, ans) ==
    [form |-> "annotation",
     issues |-> [i \in DOMAIN file.issues |->
                    IF i - 1 >= CursorOf(file)
                    THEN [file.issues[i] EXCEPT !.author_annotation =
                            Decided(file.issues[i].author_annotation, ans[i])]
                    ELSE file.issues[i]],
     progress |-> 0]

Running == apc \in {"loop", "quit", "killed", "done"}

\* C11: for every index k and every sequence of answers, a run that is
\* interrupted after it has processed index k and then restarted resumes at
\* the next unprocessed item (the index the interrupted run had reached), and
\* the document persisted when the pass completes is the one an
\* uninterrupted run over the same input and answers persists.
C11_Resumability ==
    /\ (Running /\ prev.how = "killed") =>
            IF prev.at < Len(first_input.issues)
            THEN prompted # <<>> /\ prompted[1] = prev.at
            ELSE prompted = <<>>
    /\ apc = "done" => output_file = Uninterrupted(first_input, answers)

\* C12: a run started on a persisted annotation document whose cursor is k
\* prompts index k first and prompts no index below k.
C12_ResumeAtCursor ==
    (Running /\ started_on.form = "annotation") =>
        /\ \A j \in DOMAIN prompted : prompted[j] >= started_on.progress
        /\ prompted # <<>> => prompted[1] = started_on.progress
        /\ started_on.progress < Len(started_on.issues) => prompted # <<>>

\* a second run has started on the document the first run persisted with
\* cursor 1, and has prompted index 1 only
C12_Witness ==
    /\ aruns = 2
    /\ same_path
    /\ started_on.form = "annotation"
    /\ started_on.progress = 1
    /\ first_input.progress = 0
    /\ prompted = <<1>>
    /\ apc = "done"

\* C13: a quit at index i persists the cursor i, writes no annotation for
\* item i and halts the run; a later run on the persisted document prompts
\* item i first.
C13_Quit ==
    /\ apc = "quit" =>
        /\ output_file.form = "annotation"
        /\ output_file.progress = index
        /\ output_file.issues[index + 1].author_annotation =
                started_on.issues[index + 1].author_annotation
        /\ ~ENABLED (Answer \/ Quit \/ Finish \/ Interrupt)
    /\ (Running /\ prev.how = "quit" /\ same_path) =>
            prompted # <<>> /\ prompted[1] = prev.at

\* the operator answered item 0, quit at item 1, and the next run on the
\* persisted document is at the prompt for item 1
C13_Witness ==
    /\ same_path
    /\ prev = [how |-> "quit", at |-> 1]
    /\ apc = "loop"
    /\ prompted = <<1>>
    /\ input_file.progress = 1
    /\ first_input.progress = 0

\* an answer a, d or s has just been given at index
AnswerStep == apc = "loop" /\ apc' = "loop" /\ index' = index + 1

\* C14: agree at index i sets item i's annotation to is_api_change = true,
\* disagree sets it to false, skip leaves it as it was; in all three cases
\* the cursor becomes i + 1.
C14_DecisionEffects ==
    [][AnswerStep =>
        /\ annotation_data'.issues[index + 1].author_annotation =
              Decided(annotation_data.issues[index + 1].author_annotation,
                      answers[index + 1])
        /\ annotation_data'.progress = index + 1
        /\ output_file'.issues[index + 1].author_annotation =
              Decided(annotation_data.issues[index + 1].author_annotation,
                      answers[index + 1])
        /\ output_file'.progress = index + 1]_vars

\* an agree has replaced an earlier "false" on item 0 and a skip has left
\* the "false" of item 1 in place
C14_Witness ==
    /\ apc = "loop"
    /\ index = 2
    /\ Len(output_file.issues) = 2
    /\ answers = <<"a", "s">>
    /\ first_input.issues[1].author_annotation = UserAnnotation(FALSE)
    /\ first_input.issues[2].author_annotation = UserAnnotation(FALSE)
    /\ output_file.issues[1].author_annotation = UserAnnotation(TRUE)
    /\ output_file.issues[2].author_annotation = UserAnnotation(FALSE)
    /\ output_file.progress = 2

\* an item has been answered in this run
Answered == prompted # <<>> /\ index > prompted[1]

\* C15: after every answered item and before the next prompt, the persisted
\* document equals the in-memory document (cursor = answered index + 1 and
\* every annotation made so far), so an interruption loses nothing that was
\* answered.
C15_ImmediatePersistence ==
    (apc \in {"loop", "killed"} /\ Answered) =>
        /\ output_file = save_json(annotation_data)
        /\ output_file.progress = index

\* item 0 was answered with a decision that changed it; the run is at the
\* prompt for item 1 and the output file, a file of its own, holds the change
C15_Witness ==
    /\ apc = "loop"
    /\ ~same_path
    /\ index = 1
    /\ InRange(annotation_data, index)
    /\ output_file.progress = 1
    /\ output_file.issues[1].author_annotation #
            input_file.issues[1].author_annotation

\* the indices from a to the last index of the document, in order
FromTo(a, n) == [j \in 1..(IF n > a THEN n - a ELSE 0) |-> a + j - 1]

\* C16: without a quit, a pass prompts each index from the starting cursor
\* to the last index exactly once in increasing order, the cursor advances
\* by one per answer, and the pass ends with the persisted cursor 0.
C16_PassCompletion ==
    /\ Running =>
        /\ \A j \in DOMAIN prompted : prompted[j] = CursorOf(started_on) + j - 1
        /\ (apc = "loop" /\ Answered) => annotation_data.progress = index
        /\ (apc = "loop" /\ InRange(annotation_data, index)) =>
                prompted[Len(prompted)] = index
    /\ apc = "done" =>
        /\ prompted = FromTo(CursorOf(started_on), Len(started_on.issues))
        /\ output_file.progress = 0
        /\ output_file.form = "annotation"

\* a pass over two items from cursor 0 has completed in one run
C16_Witness ==
    /\ apc = "done"
    /\ aruns = 1
    /\ prompted = <<0, 1>>
    /\ output_file.progress = 0

\* the cursor of a document is between 0 and its number of issues
CursorInBounds(doc) == doc.progress \in 0..Len(doc.issues)

\* C35: started from a document whose cursor is between 0 and the number of
\* issues, the in-memory cursor and the persisted cursor stay between 0 and
\* the number of issues, and every index prompted is an index of the issue
\* list.
C35_CursorBounds ==
    CursorInBounds(first_input) =>
        /\ CursorInBounds(annotation_data)
        /\ output_file.form # "absent" => CursorInBounds(output_file)
        /\ input_file.form # "absent" => CursorInBounds(input_file)
        /\ \A k \in DOMAIN prompted :
              prompted[k] \in 0..(Len(annotation_data.issues) - 1)
        /\ (apc = "loop" /\ InRange(annotation_data, index)) =>
              index \in 0..(Len(annotation_data.issues) - 1)

\* a run that started at cursor 1 of 2 has answered the last item: the
\* persisted cursor is the number of issues
C35_Witness ==
    /\ first_input.progress = 1
    /\ Len(first_input.issues) = 2
    /\ aruns = 1
    /\ apc = "loop"
    /\ prompted = <<1>>
    /\ output_file.form = "annotation"
    /\ output_file.progress = 2
    /\ annotation_data.progress = 2

\* C36: an answer a or d at index i changes the annotation of item i only;
\* every other item, and the number, order and numbers of the issues, are
\* left as they were by any answer, skip and quit included, in memory and in
\* the document written.
C36_AnnotationFrame ==
    [][apc = "loop" =>
        /\ Len(annotation_data'.issues) = Len(annotation_data.issues)
        /\ \A j \in DOMAIN annotation_data.issues :
              /\ annotation_data'.issues[j].number =
                    annotation_data.issues[j].number
              /\ j # index + 1 =>
                    annotation_data'.issues[j] = annotation_data.issues[j]
        /\ ((AnswerStep /\ answers[index + 1] = "s") \/ apc' = "quit") =>
              annotation_data'.issues = annotation_data.issues
        /\ output_file' # output_file =>
              output_file'.issues = annotation_data'.issues]_vars

\* the second of two items was answered d after the first was skipped: the
\* first kept its annotation, the second changed
C36_Witness ==
    /\ apc = "loop"
    /\ index = 2
    /\ Len(output_file.issues) = 2
    /\ answers = <<"s", "d">>
    /\ first_input.issues[1].author_annotation = UserAnnotation(TRUE)
    /\ first_input.issues[2].author_annotation = None
    /\ output_file.issues[1].author_annotation = UserAnnotation(TRUE)
    /\ output_file.issues[2].author_annotation = UserAnnotation(FALSE)

\* ------------------------------------------------------------------------
\* Relevance Filter: properties
\* ------------------------------------------------------------------------
\* the texts the search compares for an issue
FieldTexts(issue) ==
    {issue.title, BodyText(issue.body)}
        \cup {issue.comments[k].body : k \in DOMAIN issue.comments}

NumbersOf(rs) == {rs[k].issue.number : k \in DOMAIN rs}

Retained == NumbersOf(search_results)

OutputFromInput ==
    \A k \in DOMAIN search_results : search_results[k].issue \in Range(corpus)

\* C18 as stated: for a given threshold, an issue is in the filter's output
\* if and only if at least one of its compared fields (title, body, or some
\* comment body) scores at or above the threshold, and no issue absent from
\* the input appears in the output.
C18_RetentionAnyField ==
    fpc = "done" =>
        /\ \A i \in DOMAIN corpus :
              corpus[i].number \in Retained
                <=> \E x \in FieldTexts(corpus[i]) :
                        partial_ratio(x) >= threshold
        /\ OutputFromInput

\* C18 as amended: for a given threshold, an issue is in the filter's output
\* if and only if at least one of its non-empty compared fields scores at or
\* above the threshold, and no issue absent from the input appears in the
\* output.
C18_Retention ==
    fpc = "done" =>
        /\ \A i \in DOMAIN corpus :
              corpus[i].number \in Retained
                <=> \E x \in FieldTexts(corpus[i]) :
                        x # "" /\ partial_ratio(x) >= threshold
        /\ OutputFromInput

\* at the threshold of main(), an issue was retained for its body alone and
\* an issue whose best field scores 59 was dropped
C18_Witness ==
    /\ fpc = "done"
    /\ threshold = SEARCH_THRESHOLD
    /\ \E i, j \in DOMAIN corpus :
        /\ corpus[i].number \in Retained
        /\ corpus[i].title = "s59"
        /\ corpus[i].comments = <<>>
        /\ corpus[j].number \notin Retained
        /\ corpus[j].title = "s59"

\* C19: for a fixed corpus and vocabulary and thresholds t1 <= t2, the
\* issues search_issues_and_comments retains at t2 are a subset of those it
\* retains at t1, so the retained count never grows with the threshold.
C19_ThresholdMonotonicity ==
    fpc = "done" =>
        \A t \in Thresholds :
            /\ threshold <= t =>
                /\ NumbersOf(search_issues_and_comments(corpus, t))
                        \subseteq Retained
                /\ Len(search_issues_and_comments(corpus, t))
                        <= Len(search_results)
            /\ t <= threshold =>
                /\ Retained \subseteq
                        NumbersOf(search_issues_and_comments(corpus, t))
                /\ Len(search_results)
                        <= Len(search_issues_and_comments(corpus, t))

\* the search at 60 retained strictly more than a search at 100 retains and
\* strictly less than a search at 0 retains
C19_Witness ==
    /\ fpc = "done"
    /\ threshold = SEARCH_THRESHOLD
    /\ Retained # {}
    /\ NumbersOf(search_issues_and_comments(corpus, 100)) # Retained
    /\ NumbersOf(search_issues_and_comments(corpus, 0)) # Retained

\* C20: in the list search_issues_and_comments returns, the highest match
\* score of every issue is at least that of the issue that follows it.
C20_RelevanceOrdering ==
    fpc = "done" =>
        \A k \in 1..(Len(search_results) - 1) :
            MaxScore(search_results[k]) >= MaxScore(search_results[k + 1])

\* the sort has moved a later issue with a higher best score to the front
C20_Witness ==
    /\ fpc = "done"
    /\ Len(search_results) >= 2
    /\ search_results # results
    /\ MaxScore(search_results[1]) > MaxScore(search_results[Len(search_results)])

\* the records of one type in a matches list
RecordsOf(matches, type) == {k \in DOMAIN matches : matches[k].type = type}

\* the types a record of the issue can carry
TypesOf(issue) ==
    {"title", "body"}
        \cup {CommentType(issue.comments[c].id) : c \in DOMAIN issue.comments}

\* exactly one record of the type, carrying the field's score, when hit holds
\* and none otherwise
RecordIff(matches, type, text, hit) ==
    IF hit
    THEN /\ Cardinality(RecordsOf(matches, type)) = 1
         /\ \A k \in RecordsOf(matches, type) :
                matches[k].score = partial_ratio(text)
    ELSE RecordsOf(matches, type) = {}

AtThreshold(text) == partial_ratio(text) >= threshold

NonEmptyAtThreshold(text) == text # "" /\ partial_ratio(text) >= threshold

\* C28 as stated: for each retained issue, the matches list contains exactly
\* one record for every compared field (title, body, each comment) whose
\* score is at or above the threshold and no record for any field scoring
\* below it; the record's type is title, body or comment_<id>.
C28_MatchRecordsAnyField ==
    fpc = "done" =>
        \A k \in DOMAIN search_results :
            LET issue == search_results[k].issue
                matches == search_results[k].matches
            IN  /\ RecordIff(matches, "title", issue.title,
                             AtThreshold(issue.title))
                /\ RecordIff(matches, "body", BodyText(issue.body),
                             AtThreshold(BodyText(issue.body)))
                /\ \A c \in DOMAIN issue.comments :
                      RecordIff(matches, CommentType(issue.comments[c].id),
                                issue.comments[c].body,
                                AtThreshold(issue.comments[c].body))
                /\ \A m \in DOMAIN matches : matches[m].type \in TypesOf(issue)

\* C28 as amended: for each retained issue, the matches list contains
\* exactly one record for every non-empty compared field (title, body, each
\* comment) whose score is at or above the threshold and no record for any
\* other field; the record's type is title, body or comment_<id>.
C28_MatchRecords ==
    fpc = "done" =>
        \A k \in DOMAIN search_results :
            LET issue == search_results[k].issue
                matches == search_results[k].matches
            IN  /\ RecordIff(matches, "title", issue.title,
                             NonEmptyAtThreshold(issue.title))
                /\ RecordIff(matches, "body", BodyText(issue.body),
                             NonEmptyAtThreshold(BodyText(issue.body)))
                /\ \A c \in DOMAIN issue.comments :
                      RecordIff(matches, CommentType(issue.comments[c].id),
                                issue.comments[c].body,
                                NonEmptyAtThreshold(issue.comments[c].body))
                /\ \A m \in DOMAIN matches : matches[m].type \in TypesOf(issue)

\* at threshold 0 a retained issue carries a record for its title, its body
\* and each of its two comments
C28_Witness ==
    /\ fpc = "done"
    /\ threshold = 0
    /\ \E k \in DOMAIN search_results :
        /\ Len(search_results[k].matches) = 4
        /\ search_results[k].matches[3].type = "comment_1"
        /\ search_results[k].matches[4].type = "comment_2"

\* the fields of an issue the filter is to leave alone
Content(x) ==
    [number |-> x.number, title |-> x.title, body |-> x.body,
     state |-> x.state, tags |-> x.tags, comments |-> x.comments]

CorpusContents == {Content(corpus[i]) : i \in DOMAIN corpus}

\* C29: the Relevance Filter leaves every issue's number, title, body,
\* state, tags and comment sequence unchanged: each issue in the
\* intermediate results, in the returned list and in the saved file carries
\* the values of an input issue, and no step modifies the loaded corpus.
C29_PureFilter ==
    [][/\ corpus' = corpus
       /\ \A k \in DOMAIN results' :
            Content(results'[k].issue) \in CorpusContents
       /\ \A k \in DOMAIN search_results' :
            Content(search_results'[k].issue) \in CorpusContents
       /\ \A k \in DOMAIN saved_results' :
            Content(saved_results'[k]) \in CorpusContents]_vars

\* the file holds two retained issues in an order other than the input's,
\* one of them without a body
C29_Witness ==
    /\ fpc = "saved"
    /\ Len(saved_results) = 2
    /\ saved_results[1].number > saved_results[2].number
    /\ \E k \in DOMAIN saved_results : saved_results[k].body = None

\* ------------------------------------------------------------------------
\* Integration Scraper: properties
\* ------------------------------------------------------------------------
\* the sample iot_class values that contain "cloud", and those that contain
\* "push", in whatever case
CloudClasses == {"Cloud Polling", "Cloud Push", "cloud push"}

PushClasses == {"Local Push", "Cloud Push", "cloud push"}

DerivedFieldsOf(r) ==
    /\ r.deployment_type = (IF r.iot_class \in CloudClasses THEN "Cloud" ELSE "Local")
    /\ r.communication_mechanism =
            (IF r.iot_class \in PushClasses THEN "Push" ELSE "Polling")
    /\ r.deployment_type \in {"Cloud", "Local"}
    /\ r.communication_mechanism \in {"Push", "Polling"}

\* C33: for every record extract_integration_info produces, deployment_type
\* is Cloud if iot_class contains "cloud" case-insensitively and Local
\* otherwise, communication_mechanism is Push if it contains "push"
\* case-insensitively and Polling otherwise; the saved records carry the
\* values computed at creation.
C33_DerivedIntegrationFields ==
    /\ \A r \in Range(scraped) \cup Range(integrations_file) : DerivedFieldsOf(r)
    /\ Range(integrations_file) \subseteq Range(scraped)

\* a page with the class in lower case gave a Cloud/Push record, and a Local
\* Polling record reached the file
C33_Witness ==
    /\ scpc = "saved"
    /\ \E r \in Range(scraped) :
          /\ r.iot_class = "cloud push"
          /\ r.deployment_type = "Cloud"
          /\ r.communication_mechanism = "Push"
    /\ \E r \in Range(integrations_file) :
          /\ r.iot_class = "Local Polling"
          /\ r.deployment_type = "Local"
          /\ r.communication_mechanism = "Polling"

\* the page was fetched and has the sidebar with its intro section
HasRegion(page) == page.status = 200 /\ page.sidebar /\ page.intro_section

\* the urls visited so far whose page has the region, in the order of the file
Producing == SelectSeq([i \in 1..(scnum - 1) |-> i], LAMBDA i : HasRegion(urls[i]))

Valid(r) ==
    /\ r.iot_class \in VALID_IOT_CLASSES
    /\ Range(r.categories) \cap VALID_IOT_CATEGORY # {}

\* C34: a page without the expected region yields no record and the scrape
\* goes on: the collected records are those of the visited pages that have
\* the region, one each and in order, the run never stops before the last
\* page, and it ends by saving from the collected records.
C34_MissingPageStructure ==
    /\ scpc \in {"loop", "saved"}
    /\ [k \in DOMAIN scraped |-> scraped[k].api] = Producing
    /\ scpc = "saved" =>
          /\ scnum = Len(urls) + 1
          /\ integrations_file = SelectSeq(scraped, Valid)

\* the first page had no sidebar, the second gave a record that was saved
C34_Witness ==
    /\ scpc = "saved"
    /\ Len(urls) = 2
    /\ urls[1].status = 200
    /\ ~urls[1].sidebar
    /\ Len(integrations_file) = 1
    /\ integrations_file[1].api = 2

\* C38: every record save_integrations writes has an iot_class of
\* VALID_IOT_CLASSES and at least one category of VALID_IOT_CATEGORY; a
\* record whose iot_class was not found on the page (Unknown) is not written.
C38_PersistedIntegrationsValid ==
    \A r \in Range(integrations_file) :
        /\ r.iot_class \in {"Local Polling", "Cloud Polling", "Local Push",
                             "Cloud Push"}
        /\ \E c \in Range(r.categories) : c \in VALID_IOT_CATEGORY
        /\ r.iot_class # "Unknown"

\* a collected record with a valid category and no iot_class on its page was
\* left out of the file, which holds the other record
C38_Witness ==
    /\ scpc = "saved"
    /\ Len(integrations_file) = 1
    /\ \E r \in Range(scraped) :
          /\ r.iot_class = "Unknown"
          /\ r.categories = <<"Light">>
          /\ r \notin Range(integrations_file)

\* ------------------------------------------------------------------------
\* LLM Screening: properties
\* ------------------------------------------------------------------------
\* the issue numbers of the records in the result file
FileNumbers == {results_file.records[k].issue_number :
                    k \in DOMAIN results_file.records}

OneRecordPerIssue ==
    \A i, j \in DOMAIN results_file.records :
        i # j => results_file.records[i].issue_number #
                    results_file.records[j].issue_number

\* every answer of the oracle but the one in hand is in the file
PersistedBeforeNext ==
    \A k \in DOMAIN submitted :
        (submitted[k].ok /\ (k < Len(submitted) \/ lpc # "save"))
            => submitted[k].number \in FileNumbers

\* C37: over any sequence of screening runs, runs aborted by an oracle error
\* included, the result file holds at most one record per issue number, a
\* record once persisted stays in the file as it was written, each result is
\* persisted before the next issue is analysed, and an issue whose number is
\* in the result file is not submitted to the oracle.
C37_ScreeningResumability ==
    [][/\ OneRecordPerIssue'
       /\ \A k \in DOMAIN results_file.records :
            \E j \in DOMAIN results_file'.records :
                results_file'.records[j] = results_file.records[k]
       /\ PersistedBeforeNext'
       /\ submitted' # submitted =>
            submitted'[Len(submitted')].number \notin FileNumbers]_vars

\* the first run saved one result and was aborted by an oracle error on the
\* next issue; the second run skipped the saved issue and saved the other
C37_Witness ==
    /\ lpc = "done"
    /\ lruns = 2
    /\ Len(results_file.records) = 2
    /\ Len(submitted) = 3
    /\ submitted[1].ok /\ submitted[1].run = 1
    /\ ~submitted[2].ok /\ submitted[2].run = 1
    /\ submitted[3].ok /\ submitted[3].run = 2
    /\ submitted[3].number = submitted[2].number

====
